---- MODULE Spec2Model ----
(***************************************************************************)
(* Pairing / authentication and signaling relay of desktop-mcp-server.     *)
(*                                                                         *)
(* The repository ships two deployments that never share a process:        *)
(*   "http"      - the streamable-HTTP server (src/index.ts) with the      *)
(*                 module-level auth state of src/auth.ts;                 *)
(*   "signaling" - packages/server: AuthManager + SignalingServer +        *)
(*                 DesktopMCPServer event wiring.                          *)
(* A behaviour of the model is one run of one deployment.                  *)
(*                                                                         *)
(* Time is counted in seconds (the code counts milliseconds; every         *)
(* duration in the code is a whole number of seconds).                     *)
(***************************************************************************)
EXTENDS Integers, Sequences, FiniteSets, TLC

\* ---------------------------------------------------------------- bounds
MaxTicks == 1          \* clock advances per run
MaxHttpDevices == 2    \* successful HTTP pairings per run
MaxUuids == 1          \* uuidv4() draws per run
MaxConns == 2          \* signaling connections accepted per run
MaxCodes == 2          \* generatePairingCode calls per run
MaxSessions == 1       \* randomUUID() draws per run
MaxRestarts == 1       \* restarts of the HTTP server per run
MaxInFlight == 2       \* handlers suspended at an await at one time
MaxSockets == 2     \* WebSockets of the agent that exist at once
MaxTimers == 2      \* reconnect timers of the agent pending at once

\* ------------------------------------------------------ program constants
PAIRING_CODE_EXPIRY == 300
TOKEN_EXPIRY == 2592000
INACTIVE_THRESHOLD == 600
DEFAULT_TTL == 120
FIRST_PAIRING_TTL == 300
CODE_MIN == 100000
CODE_SPAN == 900000

\* ------------------------------------------------------------ input sets
\* clock steps: just over one pairing-code lifetime. Delays shorter than a
\* step (the 30 s authentication timer) elapse without a change of now.
TickSteps == {PAIRING_CODE_EXPIRY + 1}
\* values of Math.random() * 900000 that the model draws
RandomDraws == {0, CODE_SPAN - 1}
\* Math.floor(100000 + Math.random() * 900000)
RandomCode(r) == CODE_MIN + r
\* Number.prototype.toString() of a non-negative integer: the length of the
\* decimal string
RECURSIVE DecimalDigits(_)
DecimalDigits(n) == IF n < 10 THEN 1 ELSE 1 + DecimalDigits(n \div 10)
Codes == {RandomCode(r) : r \in RandomDraws}
\* a code no generator returns ('invalid' in the tests)
BadCode == 0
\* a missing / empty code field
NoCode == -1
CodeInputs == Codes \cup {BadCode}
\* in the place of a request's code: the body is text that JSON.parse rejects
MalformedBody == -2
TtlInputs == {DEFAULT_TTL}
\* every kind of number a caller can pass as ttlSeconds (POST /devices/pair
\* hands body.ttlSeconds to startPairing as it comes): the default, the first
\* pairing's, zero and a negative one
TtlArguments == TtlInputs \cup {FIRST_PAIRING_TTL, 0, -DEFAULT_TTL}
Names == {"Laptop"}
\* a device id supplied by the caller of generatePairingCode
CustomDeviceId == "custom-device-123"

None == <<>>
Some(x) == <<x>>

VARIABLES
    deployment,            \* which program runs: "http" or "signaling"
    now,                   \* Date.now(), seconds
    ticks,                 \* clock advances so far
    ret,                   \* the last call or event that produced a result, with its arguments
    \* ---- src/auth.ts (HTTP deployment)
    activePairingSession,  \* None or Some([code, expiresAt])
    pairedDevices,         \* sequence of PairedDevice
    serverSecret,
    randomCount,           \* randomBytes draws so far
    httpIssued,            \* tokens handed to clients: deviceId -> token
    tokensFile,            \* ~/.desktop-mcp/tokens.json: None (absent) or Some(text)
    secretFile,            \* ~/.desktop-mcp/secret: None (absent) or Some(text)
    fsWritable,            \* whether writeFileSync on the device store succeeds
    restarts,              \* process restarts so far
    apiKey,                \* --api-key / MCP_API_KEY: None or Some(key)
    activeSessions,        \* keys of the session Map: [deviceId, sessionId]
    sessionCount,          \* randomUUID() draws so far
    inFlight,              \* requests whose handler is suspended at an await
    \* ---- packages/server/src/auth.ts (AuthManager)
    pairingCodes,          \* code -> PairingCode
    devices,               \* deviceId -> DeviceInfo
    tokens,                \* token cache (keys of the Map; values are decoded keys)
    uuidCount,             \* uuidv4() draws so far
    codeCount,             \* generatePairingCode calls so far
    amIssued,              \* tokens handed to clients
    \* ---- packages/server/src/signaling.ts, mcp-server.ts
    connCount,             \* connections accepted so far
    conns,                 \* connection id -> closure state, for the connections not yet closed
    connectedAgents,       \* deviceId -> connection id
    webrtcClients,         \* device ids with a WebRTCClient
    pingIntervals,         \* connection ids whose 30 s ping interval is set
    \* ---- history, read by no operation
    consumed,              \* codes that a direct call of completePairing or pairDevice has
                           \* used up and no direct call of a generator has issued since
    discarded,             \* the code of the window that a direct call of startPairing
                           \* last replaced, or NoCode
    \* ---- packages/agent/src/screen-capture.ts (SignalingClient)
    autoReconnect,         \* options.autoReconnect
    isConnected,
    isAuthenticated,
    websocket,             \* this.websocket: a socket id, or NoSocket (null)
    reconnectTimer,        \* this.reconnectTimer: a timer handle, or NoTimer (null)
    connectionAttempts,
    sockets,               \* socket id -> [state, call] of the WebSockets created by connect()
    timers,                \* handles of the reconnect timers that are pending
    \* ---- history of the client, read by no operation
    reconnects,            \* reconnect timers scheduled so far (saturating)
    everAuthenticated,     \* some auth-response reported success
    disconnected           \* disconnect() was called and connect() not called by the owner since

timeVars == <<now, ticks>>
authVars == <<activePairingSession, pairedDevices, serverSecret, randomCount, httpIssued>>
diskVars == <<tokensFile, secretFile, fsWritable, restarts>>
serverVars == <<apiKey, activeSessions, sessionCount, inFlight>>
httpVars == <<authVars, diskVars, serverVars>>
amVars == <<pairingCodes, devices, tokens, uuidCount, codeCount, amIssued>>
sigVars == <<connCount, conns, connectedAgents, webrtcClients, pingIntervals>>
histVars == <<consumed, discarded>>
clientVars == <<autoReconnect, isConnected, isAuthenticated, websocket, reconnectTimer,
                connectionAttempts, sockets, timers, reconnects, everAuthenticated, disconnected>>
vars == <<deployment, timeVars, ret, httpVars, amVars, sigVars, histVars, clientVars>>

\* ------------------------------------------------------------ ret records
\* ret describes the last operation that has a caller or a peer (the clock and
\* cleanupExpired leave it as it was): op (its name), conn / type / code / dev
\* (its arguments or the device it resolved), ok (it returned a value, not null / false), n (a
\* returned number), reply (the message sent back on the connection), closeCode
\* (the code the handler passed to ws.close, 0 if it did not close), relayed
\* (onSignalingMessage was invoked, with dev and a message of type), disconnected (the arguments of the calls of
\* onAgentDisconnected, in order), threw (the call ended with an exception
\* instead of a return value), out (None, or Some(the value returned)),
\* removed (the number of session entries a request handler deleted, or of
\* cached tokens verifyToken deleted). Of a
\* request ret keeps the status and the device it was authenticated as.
NoTok == None
RetDefault ==
    [op |-> "init", conn |-> 0, type |-> "", code |-> NoCode, dev |-> "",
     ok |-> TRUE, n |-> 0, reply |-> "", closeCode |-> 0, relayed |-> FALSE,
     disconnected |-> <<>>, threw |-> FALSE, out |-> <<>>, removed |-> 0]
Ret(fields) == fields @@ RetDefault

\* ------------------------------------------------------------ expiry
\* an expiry test that never says expired
Expired_Never(expiresAt, t) == FALSE
\* Date.now() > expiresAt / expiresAt < now: the instant t is past expiresAt
Expired(expiresAt, t) == expiresAt < t

\* ------------------------------------------------------------ lastSeen
\* a verification that resets lastSeen to the epoch
Touch_Epoch(device, t) == [device EXCEPT !.lastSeen = 0]
\* device.lastSeen = Date.now() / new Date().toISOString()
Touch(device, t) == [device EXCEPT !.lastSeen = t]

\* ------------------------------------------------------------ crypto
\* createHmac("sha256", key).update(data).digest("hex"): a keyed function,
\* collision-free on the values of the model
Hmac(key, data) == <<"hmac", key, data>>

\* ================================================================= src/auth.ts
\* randomBytes(8).toString("hex") / randomBytes(48).toString("base64url"):
\* the n-th draw, never repeated
HttpDeviceId(n) == "dev-" \o ToString(n)
HttpToken(deviceId, raw) == [prefix |-> "dmcp_", deviceId |-> deviceId, raw |-> raw]
\* tokens a client may present: issued ones, a guess for a known device id,
\* and a string without the dmcp_ prefix
HttpGuess(id) == HttpToken(id, 0)
HttpForeign == [prefix |-> "Bearer", deviceId |-> "", raw |-> 0]
HttpTokenInputs ==
    {httpIssued[d] : d \in DOMAIN httpIssued}
        \cup {HttpGuess(HttpDeviceId(1))} \cup {HttpForeign}

\* the static API key of the operator, and a key that is not it
ApiKey == [prefix |-> "key_", deviceId |-> "", raw |-> 1]
WrongKey == [prefix |-> "key_", deviceId |-> "", raw |-> 2]

DeviceIdsOf(devs) == {devs[i].id : i \in 1..Len(devs)}

\* devs.filter((d) => d.id !== deviceId)
RECURSIVE FilterOutId(_, _)
FilterOutId(devs, deviceId) ==
    IF devs = <<>> THEN <<>>
    ELSE IF Head(devs).id # deviceId
         THEN <<Head(devs)>> \o FilterOutId(Tail(devs), deviceId)
         ELSE FilterOutId(Tail(devs), deviceId)

\* pairedDevices.find((d) => d.tokenHash === tokenHash): index of the first match, 0 if none
FindByHash(devs, h) ==
    IF \E i \in 1..Len(devs) : devs[i].tokenHash = h
    THEN CHOOSE i \in 1..Len(devs) :
            /\ devs[i].tokenHash = h
            /\ \A j \in 1..(i - 1) : devs[j].tokenHash # h
    ELSE 0

\* startPairing that keeps a window that is still pending
startPairing_KeepsPending(ttlSeconds) ==
    /\ deployment = "http"
    /\ \E r \in RandomDraws :
        LET code == RandomCode(r) IN
        /\ activePairingSession' =
                IF activePairingSession = None
                THEN Some([code |-> code, expiresAt |-> now + ttlSeconds])
                ELSE activePairingSession
        /\ ret' = Ret([op |-> "startPairing", code |-> code, n |-> ttlSeconds])
        /\ consumed' = consumed \ {code}
    /\ discarded' = IF activePairingSession = None THEN NoCode
                    ELSE activePairingSession[1].code
    /\ UNCHANGED <<deployment, clientVars, timeVars, pairedDevices, serverSecret, randomCount,
                   httpIssued, diskVars, serverVars, amVars, sigVars>>

startPairing(ttlSeconds) ==
    /\ deployment = "http"
    /\ \E r \in RandomDraws :
        LET code == RandomCode(r) IN
        /\ activePairingSession' = Some([code |-> code, expiresAt |-> now + ttlSeconds])
        /\ ret' = Ret([op |-> "startPairing", code |-> code, n |-> ttlSeconds])
        /\ consumed' = consumed \ {code}
    /\ discarded' = IF activePairingSession = None THEN NoCode
                    ELSE activePairingSession[1].code
    /\ UNCHANGED <<deployment, clientVars, timeVars, pairedDevices, serverSecret, randomCount,
                   httpIssued, diskVars, serverVars, amVars, sigVars>>

\* JSON.stringify(pairedDevices, null, 2) and JSON.parse of the file text.
\* Every field of a PairedDevice is a string, so parsing the text that
\* stringify wrote gives back equal records; text that is not JSON makes
\* JSON.parse throw, which initAuth turns into the empty list.
JsonStringify(devs) == [json |-> devs]
JsonParse(text) == IF "json" \in DOMAIN text THEN text.json ELSE <<>>

\* The state that the functions of src/auth.ts and the request handler read
\* and write, as one record, so that a handler that calls several of them is
\* one step. out is what the last call returned: None for null / false,
\* Some(value) otherwise; threw says that it ended with an exception.
HttpState ==
    [devs |-> pairedDevices, file |-> tokensFile, pairing |-> activePairingSession,
     sessions |-> activeSessions, issued |-> httpIssued, randomCount |-> randomCount,
     sessionCount |-> sessionCount, consumed |-> consumed, discarded |-> discarded,
     out |-> None, threw |-> FALSE]

HttpApply(st) ==
    /\ pairedDevices' = st.devs
    /\ tokensFile' = st.file
    /\ activePairingSession' = st.pairing
    /\ activeSessions' = st.sessions
    /\ httpIssued' = st.issued
    /\ randomCount' = st.randomCount
    /\ sessionCount' = st.sessionCount
    /\ consumed' = st.consumed
    /\ discarded' = st.discarded

\* saveDevices with the write wrapped in try / catch
saveDevices_Caught(st) ==
    IF fsWritable THEN [st EXCEPT !.file = Some(JsonStringify(st.devs))] ELSE st

\* saveDevices(): writeFileSync either replaces the file or throws
saveDevices(st) ==
    IF fsWritable
    THEN [st EXCEPT !.file = Some(JsonStringify(st.devs))]
    ELSE [st EXCEPT !.out = None, !.threw = TRUE]

\* the code, still pending and not expired, that completePairing accepts
PairingAccepts(st, code) ==
    /\ st.pairing # None
    /\ ~Expired(st.pairing[1].expiresAt, now)
    /\ st.pairing[1].code = code

\* completePairing(code, clientName, clientIp) on st
completePairingIn(st, code) ==
    IF st.pairing = None THEN [st EXCEPT !.out = None]
    ELSE IF Expired(st.pairing[1].expiresAt, now)
    THEN [st EXCEPT !.pairing = None, !.out = None]
    ELSE IF st.pairing[1].code # code THEN [st EXCEPT !.out = None]
    ELSE LET deviceId == HttpDeviceId(st.randomCount + 1)
             token == HttpToken(deviceId, st.randomCount + 1)
             tokenHash == Hmac(serverSecret, token)
             pushed == [st EXCEPT !.randomCount = @ + 1,
                                  !.devs = Append(@, [id |-> deviceId, tokenHash |-> tokenHash,
                                                      pairedAt |-> now, lastSeen |-> now])]
             saved == saveDevices(pushed)
         IN IF saved.threw THEN saved
            ELSE [saved EXCEPT !.pairing = None,
                               !.issued = [d \in DOMAIN @ \cup {deviceId} |->
                                                IF d = deviceId THEN token ELSE @[d]],
                               !.consumed = @ \cup {code},
                               !.out = Some([token |-> token, deviceId |-> deviceId])]

completePairing(code) ==
    /\ deployment = "http"
    /\ PairingAccepts(HttpState, code) => randomCount < MaxHttpDevices
    /\ LET st == completePairingIn(HttpState, code) IN
        /\ HttpApply(st)
        /\ ret' = Ret([op |-> "completePairing", code |-> code, ok |-> st.out # None,
                       dev |-> IF st.out = None THEN "" ELSE st.out[1].deviceId,
                       out |-> st.out, threw |-> st.threw])
    /\ UNCHANGED <<deployment, clientVars, timeVars, serverSecret, secretFile, fsWritable, restarts,
                   apiKey, inFlight, amVars, sigVars>>

\* validateToken(token, clientIp) on st; the value returned is the element of
\* pairedDevices itself
validateTokenIn(st, token) ==
    LET tokenHash == Hmac(serverSecret, token)
        i == FindByHash(st.devs, tokenHash)
    IN IF i = 0 THEN [st EXCEPT !.out = None]
       ELSE LET saved == saveDevices([st EXCEPT !.devs[i] = Touch(@, now)])
            IN IF saved.threw THEN saved ELSE [saved EXCEPT !.out = Some(saved.devs[i])]

validateToken(token) ==
    /\ deployment = "http"
    /\ LET st == validateTokenIn(HttpState, token) IN
        /\ HttpApply(st)
        /\ ret' = Ret([op |-> "validateToken", ok |-> st.out # None,
                       dev |-> IF st.out = None THEN "" ELSE st.out[1].id,
                       out |-> st.out, threw |-> st.threw])
    /\ UNCHANGED <<deployment, clientVars, timeVars, serverSecret, secretFile, fsWritable, restarts,
                   apiKey, inFlight, amVars, sigVars>>

\* a header value: the scheme word before the credential ("" if there is
\* none) and the credential
Header(scheme, cred) == [scheme |-> scheme, cred |-> cred]

\* authenticate(req) on st, auth being req.headers["authorization"]: None or
\* Some(header). A leading "Bearer " is cut off; what is left has to start
\* with dmcp_.
authenticateIn(st, auth) ==
    IF auth = None THEN [st EXCEPT !.out = None]
    ELSE IF auth[1].scheme \notin {"Bearer", ""} \/ auth[1].cred.prefix # "dmcp_"
    THEN [st EXCEPT !.out = None]
    ELSE validateTokenIn(st, auth[1].cred)

\* ({ tokenHash, ...rest }) => rest
OmitTokenHash(d) == [f \in DOMAIN d \ {"tokenHash"} |-> d[f]]

\* a map that returns the records as they are
listDevicesOf_Whole(devs) == devs
\* pairedDevices.map(({ tokenHash, ...rest }) => rest)
listDevicesOf(devs) == [i \in 1..Len(devs) |-> OmitTokenHash(devs[i])]

\* listDevices()
listDevices == listDevicesOf(pairedDevices)

\* revokeDevice(deviceId) on st
revokeDeviceIn(st, deviceId) ==
    LET after == FilterOutId(st.devs, deviceId)
        filtered == [st EXCEPT !.devs = after]
    IN IF Len(after) < Len(st.devs)
       THEN LET saved == saveDevices(filtered)
            IN IF saved.threw THEN saved ELSE [saved EXCEPT !.out = Some(TRUE)]
       ELSE [filtered EXCEPT !.out = None]

revokeDevice(deviceId) ==
    /\ deployment = "http"
    /\ LET st == revokeDeviceIn(HttpState, deviceId) IN
        /\ HttpApply(st)
        /\ ret' = Ret([op |-> "revokeDevice", dev |-> deviceId, ok |-> st.out # None,
                       threw |-> st.threw])
    /\ UNCHANGED <<deployment, clientVars, timeVars, serverSecret, secretFile, fsWritable, restarts,
                   apiKey, inFlight, amVars, sigVars>>

\* revokeAll() on st
revokeAllIn(st) ==
    LET saved == saveDevices([st EXCEPT !.devs = <<>>])
    IN IF saved.threw THEN saved ELSE [saved EXCEPT !.out = Some(Len(st.devs))]

revokeAll ==
    /\ deployment = "http"
    /\ LET st == revokeAllIn(HttpState) IN
        /\ HttpApply(st)
        /\ ret' = Ret([op |-> "revokeAll", ok |-> ~st.threw,
                       n |-> IF st.out = None THEN 0 ELSE st.out[1], threw |-> st.threw])
    /\ UNCHANGED <<deployment, clientVars, timeVars, serverSecret, secretFile, fsWritable, restarts,
                   apiKey, inFlight, amVars, sigVars>>

\* ---- the exported functions called directly
CallListDevices ==
    /\ deployment = "http"
    /\ ret' = Ret([op |-> "listDevices", n |-> Len(listDevices), out |-> Some(listDevices)])
    /\ UNCHANGED <<deployment, clientVars, timeVars, httpVars, amVars, sigVars, histVars>>

CallAuthenticate(auth) ==
    /\ deployment = "http"
    /\ LET st == authenticateIn(HttpState, auth) IN
        /\ HttpApply(st)
        /\ ret' = Ret([op |-> "authenticate", ok |-> st.out # None,
                       dev |-> IF st.out = None THEN "" ELSE st.out[1].id,
                       out |-> st.out, threw |-> st.threw])
    /\ UNCHANGED <<deployment, clientVars, timeVars, serverSecret, secretFile, fsWritable, restarts,
                   apiKey, inFlight, amVars, sigVars>>

\* isPairingActive() on st
isPairingActiveIn(st) ==
    IF st.pairing = None THEN [st EXCEPT !.out = None]
    ELSE IF Expired(st.pairing[1].expiresAt, now)
    THEN [st EXCEPT !.pairing = None, !.out = None]
    ELSE [st EXCEPT !.out = Some(TRUE)]

\* startPairing(ttlSeconds) on st, r being the value Math.random() gives
startPairingIn(st, ttlSeconds, r) ==
    LET code == RandomCode(r) IN
    [st EXCEPT !.pairing = Some([code |-> code, expiresAt |-> now + ttlSeconds]),
               !.consumed = @ \ {code},
               !.discarded = IF st.pairing = None THEN NoCode ELSE st.pairing[1].code,
               !.out = Some(code)]

\* the device store becomes unwritable (disk full, permissions changed) or
\* writable again
FsFault ==
    /\ deployment = "http"
    /\ fsWritable' = ~fsWritable
    /\ UNCHANGED <<deployment, clientVars, timeVars, ret, authVars, tokensFile, secretFile, restarts,
                   serverVars, amVars, sigVars, histVars>>

\* ============================================================== src/index.ts
\* randomUUID(): the n-th draw, never repeated
SessionId(n) == "session-" \o ToString(n)

\* a request: method, url (the path split at "/"), the Authorization header,
\* the code of the JSON body (POST /pair; MalformedBody if the body of a POST
\* is not JSON), the Mcp-Session-Id header, and the
\* value Math.random() gives if the handler starts a pairing window
Request(method, url, auth, code, session, draw) ==
    [method |-> method, url |-> url, auth |-> auth, code |-> code, session |-> session,
     draw |-> draw]

AuthInputs ==
    {None} \cup {Some(Header("Bearer", t)) : t \in HttpTokenInputs \cup {ApiKey, WrongKey}}
           \cup {Some(Header("", ApiKey))}
\* Mcp-Session-Id: absent, or the id of a session the client opened earlier
\* with the same credential
SessionInputs(auth) ==
    LET owner == IF auth = None THEN ""
                 ELSE IF auth[1].cred.prefix = "dmcp_" THEN auth[1].cred.deviceId
                 ELSE "legacy"
    IN {None} \cup {Some(k.sessionId) : k \in {x \in activeSessions : x.deviceId = owner}}
\* the requests without credentials that the gate lets through
PublicRequests ==
    {Request("OPTIONS", <<"mcp">>, None, NoCode, None, 0),
     Request("GET", <<"health">>, None, NoCode, None, 0)}
        \cup {Request("POST", <<"pair">>, None, c, None, 0) :
                c \in CodeInputs \cup {NoCode, MalformedBody}}
\* every endpoint behind the gate, a path that is a public one under another
\* method, and a path that does not exist, each with every header
GatedRequests ==
    UNION {{Request("POST", <<"mcp">>, a, NoCode, sid, 0) : sid \in SessionInputs(a)} :
                a \in AuthInputs}
    \cup {Request("GET", u, a, NoCode, None, 0) :
            u \in {<<"devices">>, <<"pair">>, <<"nope">>}, a \in AuthInputs}
    \cup {Request("POST", <<"devices", "pair">>, a, NoCode, None, r) :
            a \in AuthInputs, r \in RandomDraws}
    \cup {Request("POST", <<"devices", "pair">>, a, MalformedBody, None, 0) : a \in AuthInputs}
    \cup {Request("DELETE", <<"devices", id>>, a, NoCode, None, 0) :
            id \in DeviceIdsOf(pairedDevices) \cup {"all", "non-existent"}, a \in AuthInputs}
Requests == PublicRequests \cup GatedRequests

\* json(res, status, data) / res.writeHead(status): the answer, with the
\* device the request was authenticated as
Respond(st, status, dev, body) == [st EXCEPT !.out = body] @@ [status |-> status, dev |-> dev]

\* a legacy check that accepts every key
LegacyAuth_AnyKey(auth) ==
    /\ apiKey # None
    /\ auth # None
    /\ auth[1].scheme = "Bearer"
    /\ auth[1].cred.prefix = "key_"

\* apiKey && req.headers["authorization"] === `Bearer ${apiKey}`
LegacyAuth(auth) ==
    /\ apiKey # None
    /\ auth = Some(Header("Bearer", apiKey[1]))

\* a DELETE that leaves the session Map alone
DropSessions_Keep(sessions, id) == sessions
\* the loop that deletes the entries with session.deviceId === id
DropSessions(sessions, id) == {k \in sessions : k.deviceId # id}

\* an exception leaves the handler before res.writeHead: no answer is written
\* (status 0) and the promise that handler returned is rejected
Throw(st, dev) == [st EXCEPT !.threw = TRUE, !.out = None] @@ [status |-> 0, dev |-> dev]

\* the endpoints behind the gate, for a request authenticated as deviceId
Endpoint(st, req, deviceId) ==
    IF req.url = <<"mcp">>
    THEN LET fresh == req.session = None
             sessionId == IF fresh THEN SessionId(st.sessionCount + 1) ELSE req.session[1]
             key == [deviceId |-> deviceId, sessionId |-> sessionId]
         IN Respond([st EXCEPT !.sessionCount = IF fresh THEN @ + 1 ELSE @,
                               !.sessions = @ \cup {key}],
                    200, deviceId, None)
    ELSE IF req.url = <<"devices">> /\ req.method = "GET"
    THEN Respond(st, 200, deviceId,
                 Some([devices |-> listDevicesOf(st.devs), activeSessions |-> st.sessions]))
    ELSE IF req.url = <<"devices", "pair">> /\ req.method = "POST"
    THEN IF req.code = MalformedBody THEN Throw(st, deviceId)
         ELSE LET started == startPairingIn(st, DEFAULT_TTL, req.draw)
              IN Respond(started, 200, deviceId, started.out)
    ELSE IF Len(req.url) >= 2 /\ req.url[1] = "devices" /\ req.method = "DELETE"
    THEN LET id == req.url[2] IN
         IF id = "all"
         THEN LET revoked == revokeAllIn(st)
              IN IF revoked.threw THEN revoked @@ [status |-> 0, dev |-> deviceId]
                 ELSE Respond([revoked EXCEPT !.sessions = {}], 200, deviceId, revoked.out)
         ELSE LET revoked == revokeDeviceIn(st, id)
              IN IF revoked.threw THEN revoked @@ [status |-> 0, dev |-> deviceId]
                 ELSE IF revoked.out # None
                 THEN Respond([revoked EXCEPT !.sessions = DropSessions(@, id)],
                              200, deviceId, Some(id))
                 ELSE Respond(revoked, 404, deviceId, None)
    ELSE Respond(st, 404, deviceId, None)

\* handler(req, res) on the current state: the state afterwards with the
\* status of the answer (0 if the handler threw before it answered)
Handle(req) ==
    LET st == HttpState IN
    IF req.method = "OPTIONS" THEN Respond(st, 204, "", None)
    ELSE IF req.url = <<"health">>
    THEN LET active == isPairingActiveIn(st) IN Respond(active, 200, "", active.out)
    ELSE IF req.url = <<"pair">> /\ req.method = "POST"
    THEN IF req.code = MalformedBody THEN Throw(st, "")
         ELSE IF req.code = NoCode THEN Respond(st, 400, "", None)
         ELSE LET paired == completePairingIn(st, req.code)
              IN IF paired.threw THEN paired @@ [status |-> 0, dev |-> ""]
                 ELSE IF paired.out = None THEN Respond(paired, 403, "", None)
                 ELSE Respond(paired, 200, "", paired.out)
    ELSE LET device == authenticateIn(st, req.auth)
         IN IF device.threw THEN device @@ [status |-> 0, dev |-> ""]
            ELSE IF device.out = None /\ ~LegacyAuth(req.auth)
            THEN Respond(device, 401, "", None)
            ELSE Endpoint(device, req,
                          IF device.out # None THEN device.out[1].id ELSE "legacy")

\* one request, from its arrival to the answer. The two awaits after the gate
\* (sessionServer.connect, readBody) are taken with the rest of the handler.
handler(req) ==
    /\ deployment = "http"
    /\ LET res == Handle(req) IN
        /\ res.randomCount <= MaxHttpDevices
        /\ res.sessionCount <= MaxSessions
        /\ HttpApply([res EXCEPT !.consumed = consumed, !.discarded = discarded])
        /\ ret' = Ret([op |-> "request", n |-> res.status,
                       ok |-> res.status \in {200, 204}, threw |-> res.threw,
                       removed |-> Cardinality(activeSessions \ res.sessions)])
    /\ UNCHANGED <<deployment, clientVars, timeVars, serverSecret, secretFile, fsWritable, restarts,
                   apiKey, inFlight, amVars, sigVars>>

\* ---- the handler across its await points. handler is an async function:
\* after the gate, /mcp awaits sessionServer.connect(sessionTransport) when it
\* has found no entry for the key, and POST /devices/pair awaits readBody(req).
\* Other requests are handled while the promise is pending; the handler then
\* goes on with the values it computed before the await.

\* an Mcp-Session-Id that the client made up
ClientSessionId == "client-session"

\* the requests that reach an await with work left to do after it
SuspendRequests ==
    {Request("POST", <<"mcp">>, Some(Header("Bearer", t)), NoCode, Some(ClientSessionId), 0) :
        t \in HttpTokenInputs \cup {ApiKey}}
    \cup {Request("POST", <<"devices", "pair">>, Some(Header("Bearer", t)), NoCode, None, 0) :
        t \in HttpTokenInputs \cup {ApiKey}}
\* the requests that pair and revoke devices while a handler is suspended
OvertakingRequests ==
    {Request("POST", <<"pair">>, None, c, None, 0) : c \in Codes}
    \cup {Request("DELETE", <<"devices", id>>, Some(Header("Bearer", t)), NoCode, None, 0) :
            id \in DeviceIdsOf(pairedDevices) \cup {"all"}, t \in HttpTokenInputs \cup {ApiKey}}

\* the smallest number no suspended handler carries
FreeSlot == CHOOSE n \in 1..MaxInFlight :
                /\ \A k \in inFlight : k.slot # n
                /\ \A m \in 1..(n - 1) : \E k \in inFlight : k.slot = m

\* handler(req, res) from its start to the await: the gate, then the locals
\* deviceId, sessionId and sessionKey; the new transport and server exist when
\* the /mcp handler suspends
handlerSuspend(req) ==
    /\ deployment = "http"
    /\ Cardinality(inFlight) < MaxInFlight
    /\ LET device == authenticateIn(HttpState, req.auth)
           deviceId == IF device.out # None THEN device.out[1].id ELSE "legacy"
           fresh == req.url = <<"mcp">> /\ req.session = None
           sessionId == IF req.url # <<"mcp">> THEN ""
                        ELSE IF fresh THEN SessionId(sessionCount + 1) ELSE req.session[1]
       IN /\ ~device.threw
          /\ device.out # None \/ LegacyAuth(req.auth)
          /\ req.url = <<"mcp">> =>
                [deviceId |-> deviceId, sessionId |-> sessionId] \notin activeSessions
          /\ fresh => sessionCount < MaxSessions
          /\ HttpApply([device EXCEPT !.sessionCount = IF fresh THEN @ + 1 ELSE @])
          /\ inFlight' = inFlight \cup {[slot |-> FreeSlot, url |-> req.url, deviceId |-> deviceId,
                                         sessionId |-> sessionId, draw |-> req.draw]}
          /\ ret' = Ret([op |-> "await", dev |-> deviceId])
    /\ UNCHANGED <<deployment, clientVars, timeVars, serverSecret, secretFile, fsWritable, restarts,
                   apiKey, amVars, sigVars>>

\* handler(req, res) from the await to its end: activeSessions.set(sessionKey,
\* session) and the hand-over to the transport, or startPairing(ttl) and the
\* 200 answer. Nothing is looked up again after the await.
handlerResume(k) ==
    /\ deployment = "http"
    /\ k \in inFlight
    /\ inFlight' = inFlight \ {k}
    /\ IF k.url = <<"mcp">>
       THEN HttpApply([HttpState EXCEPT
                !.sessions = @ \cup {[deviceId |-> k.deviceId, sessionId |-> k.sessionId]}])
       ELSE HttpApply(startPairingIn(HttpState, DEFAULT_TTL, k.draw))
    /\ ret' = Ret([op |-> "resume", dev |-> k.deviceId, n |-> 200])
    /\ UNCHANGED <<deployment, clientVars, timeVars, serverSecret, secretFile, fsWritable, restarts,
                   apiKey, amVars, sigVars>>

\* a start that makes a new secret although the file exists
readSecret_Other(file) == "regenerated"
\* readFileSync(SECRET_FILE, "utf-8").trim(): the hex digits that were written
readSecret(file) == file[1]

\* a start that takes the device list for empty whatever it holds
NoDevices_Always(devs) == TRUE
\* existingDevices.length === 0
NoDevices(devs) == Len(devs) = 0

\* The process ends and main() runs again: module state starts empty,
\* initAuth() reloads the secret and the device store, and the first pairing
\* window opens if no device is paired. Clients keep the tokens they hold.
Restart ==
    /\ deployment = "http"
    /\ restarts < MaxRestarts
    /\ restarts' = restarts + 1
    /\ serverSecret' = IF secretFile = None THEN serverSecret ELSE readSecret(secretFile)
    /\ pairedDevices' = IF tokensFile = None THEN <<>> ELSE JsonParse(tokensFile[1])
    /\ activeSessions' = {}
    /\ inFlight' = {}
    /\ \E r \in RandomDraws :
        LET started == startPairingIn([HttpState EXCEPT !.pairing = None], FIRST_PAIRING_TTL, r)
        IN activePairingSession' = IF NoDevices(pairedDevices') THEN started.pairing ELSE None
    /\ ret' = Ret([op |-> "restart", n |-> Len(pairedDevices')])
    /\ UNCHANGED <<deployment, clientVars, timeVars, randomCount, httpIssued, tokensFile, secretFile,
                   fsWritable, apiKey, sessionCount, amVars, sigVars, histVars>>

\* ====================================================== packages/server/src/auth.ts
\* process.env.DESKTOP_MCP_SECRET || crypto.randomBytes(32): fixed for the run
SECRET_KEY == "secret-key"

\* uuidv4(): the n-th draw, never repeated
Uuid(n) == "uuid-" \o ToString(n)

\* Map helpers: a Map is a function on its key set
MapSet(m, k, v) == [x \in DOMAIN m \cup {k} |-> IF x = k THEN v ELSE m[x]]
\* Map.delete forgotten
MapDelete_Noop(m, k) == m
MapDelete(m, k) == [x \in DOMAIN m \ {k} |-> m[x]]
Has(m, k) == k \in DOMAIN m

\* signToken(payload): base64(JSON.stringify(payload)) + '.' + hex HMAC.
\* The two parts are kept as the fields of a record; JSON keeps numbers and
\* non-empty strings and drops an undefined deviceName, which the model
\* writes as the empty string.
signToken(payload) == [payload |-> Some(payload), sig |-> Some(Hmac(SECRET_KEY, payload))]

Payload(deviceId, deviceName, issuedAt) ==
    [deviceId |-> deviceId, deviceName |-> deviceName,
     issuedAt |-> issuedAt, expiresAt |-> issuedAt + TOKEN_EXPIRY]

\* 'invalid-token': no '.' in the string, so no signature part
GarbageToken == [payload |-> None, sig |-> None]
\* a well-formed payload with a signature made under another key
ForgedToken == [payload |-> Some(Payload(CustomDeviceId, "Laptop", 1)),
                sig |-> Some(Hmac("other-key", Payload(CustomDeviceId, "Laptop", 1)))]
AmTokenInputs == amIssued \cup {GarbageToken, ForgedToken}

\* verifyTokenSignature(token): None, or Some(decoded AuthToken)
verifyTokenSignature(token, t) ==
    IF token.payload = None \/ token.sig = None THEN None
    ELSE LET payload == token.payload[1] IN
         IF token.sig[1] # Hmac(SECRET_KEY, payload) THEN None
         ELSE IF payload.deviceId = "" \/ payload.deviceName = ""
                 \/ payload.issuedAt = 0 \/ payload.expiresAt = 0 THEN None
         ELSE IF Expired(payload.expiresAt, t) THEN None
         ELSE Some(token)

\* The fields of the AuthToken stored under a token are the fields of its payload
TokenDeviceId(token) == token.payload[1].deviceId
TokenExpiresAt(token) == token.payload[1].expiresAt

\* generateToken(deviceId, deviceName): the token; the caller caches it
generateToken(deviceId, deviceName, t) == signToken(Payload(deviceId, deviceName, t))

\* pairDevice(code, deviceName, platform, version) as a function of the state:
\* out is None (null) or Some(token); the other fields are the maps afterwards.
\* platform and version are stored and never read; the model leaves them out.
pairDevice(code, deviceName) ==
    IF ~Has(pairingCodes, code) \/ Expired(pairingCodes[code].expiresAt, now)
    THEN [out |-> None, pairingCodes |-> pairingCodes, devices |-> devices, tokens |-> tokens]
    ELSE LET deviceId == pairingCodes[code].deviceId
             token == generateToken(deviceId, deviceName, now)
         IN [out |-> Some(token),
             pairingCodes |-> MapDelete(pairingCodes, code),
             devices |-> MapSet(devices, deviceId,
                            [deviceName |-> deviceName, lastSeen |-> now, isActive |-> TRUE]),
             tokens |-> tokens \cup {token}]

\* verifyToken(token) as a function of the state
verifyToken(token) ==
    IF token \notin tokens
    THEN LET decoded == verifyTokenSignature(token, now) IN
         IF decoded = None
         THEN [out |-> None, tokens |-> tokens, devices |-> devices]
         ELSE [out |-> decoded, tokens |-> tokens \cup {token}, devices |-> devices]
    ELSE IF Expired(TokenExpiresAt(token), now)
    THEN [out |-> None, tokens |-> tokens \ {token}, devices |-> devices]
    ELSE LET d == TokenDeviceId(token) IN
         [out |-> Some(token), tokens |-> tokens,
          devices |-> IF Has(devices, d)
                      THEN [devices EXCEPT ![d] = [Touch(@, now) EXCEPT !.isActive = TRUE]]
                      ELSE devices]

\* deactivateDevice(deviceId): the devices map afterwards
deactivateDevice(devs, deviceId) ==
    IF Has(devs, deviceId) THEN [devs EXCEPT ![deviceId].isActive = FALSE] ELSE devs

\* ---- the public methods as operations of the AuthManager object
generatePairingCode(deviceId) ==
    /\ deployment = "signaling"
    /\ codeCount < MaxCodes
    /\ deviceId = None => uuidCount < MaxUuids
    /\ \E r \in RandomDraws :
        LET code == RandomCode(r)
            id == IF deviceId = None THEN Uuid(uuidCount + 1) ELSE deviceId[1]
        IN /\ pairingCodes' = MapSet(pairingCodes, code,
                    [deviceId |-> id, timestamp |-> now, expiresAt |-> now + PAIRING_CODE_EXPIRY])
           /\ ret' = Ret([op |-> "generatePairingCode", code |-> code, dev |-> id])
           /\ consumed' = consumed \ {code}
    /\ uuidCount' = IF deviceId = None THEN uuidCount + 1 ELSE uuidCount
    /\ codeCount' = codeCount + 1
    /\ UNCHANGED <<deployment, clientVars, timeVars, httpVars, devices, tokens, amIssued, sigVars, discarded>>

CallPairDevice(code, deviceName) ==
    /\ deployment = "signaling"
    /\ LET r == pairDevice(code, deviceName) IN
        /\ pairingCodes' = r.pairingCodes
        /\ devices' = r.devices
        /\ tokens' = r.tokens
        /\ amIssued' = IF r.out = None THEN amIssued ELSE amIssued \cup {r.out[1]}
        /\ ret' = Ret([op |-> "pairDevice", code |-> code, ok |-> r.out # None,
                       dev |-> IF r.out = None THEN "" ELSE TokenDeviceId(r.out[1])])
        /\ consumed' = IF r.out = None THEN consumed ELSE consumed \cup {code}
    /\ UNCHANGED <<deployment, clientVars, timeVars, httpVars, uuidCount, codeCount, sigVars, discarded>>

CallVerifyToken(token) ==
    /\ deployment = "signaling"
    /\ LET r == verifyToken(token) IN
        /\ tokens' = r.tokens
        /\ devices' = r.devices
        /\ ret' = Ret([op |-> "verifyToken", ok |-> r.out # None,
                       dev |-> IF r.out = None THEN "" ELSE TokenDeviceId(r.out[1]),
                       removed |-> Cardinality(tokens \ r.tokens)])
    /\ UNCHANGED <<deployment, clientVars, timeVars, httpVars, pairingCodes, uuidCount, codeCount,
                   amIssued, sigVars, histVars>>

removeDevice(deviceId) ==
    /\ deployment = "signaling"
    /\ IF ~Has(devices, deviceId)
       THEN /\ ret' = Ret([op |-> "removeDevice", dev |-> deviceId, ok |-> FALSE])
            /\ UNCHANGED <<devices, tokens>>
       ELSE /\ devices' = MapDelete(devices, deviceId)
            /\ tokens' = {t \in tokens : TokenDeviceId(t) # deviceId}
            /\ ret' = Ret([op |-> "removeDevice", dev |-> deviceId])
    /\ UNCHANGED <<deployment, clientVars, timeVars, httpVars, pairingCodes, uuidCount, codeCount,
                   amIssued, sigVars, histVars>>

CallDeactivateDevice(deviceId) ==
    /\ deployment = "signaling"
    /\ devices' = deactivateDevice(devices, deviceId)
    /\ ret' = Ret([op |-> "deactivateDevice", dev |-> deviceId, ok |-> Has(devices, deviceId)])
    /\ UNCHANGED <<deployment, clientVars, timeVars, httpVars, pairingCodes, tokens, uuidCount, codeCount,
                   amIssued, sigVars, histVars>>

\* a sweep that takes every device for stale
Stale_Always(device, t) == TRUE
\* device.lastSeen < inactiveThreshold
Stale(device, t) == device.lastSeen < t - INACTIVE_THRESHOLD

\* cleanupExpired(), run by setInterval every 60 s; the model lets it run at
\* any time, which includes every schedule the timer produces. It has no
\* caller and no result, so ret stays as it was.
cleanupExpired ==
    /\ deployment = "signaling"
    /\ pairingCodes' = [c \in {k \in DOMAIN pairingCodes : ~(pairingCodes[k].expiresAt < now)}
                            |-> pairingCodes[c]]
    /\ tokens' = {t \in tokens : ~(TokenExpiresAt(t) < now)}
    /\ devices' = [d \in DOMAIN devices |->
                     IF Stale(devices[d], now)
                     THEN [devices[d] EXCEPT !.isActive = FALSE]
                     ELSE devices[d]]
    /\ UNCHANGED <<deployment, clientVars, timeVars, ret, httpVars, uuidCount, codeCount, amIssued, sigVars,
                   histVars>>

\* ================================================== packages/server/src/signaling.ts
\* One record per connection whose 'close' event has not fired: the closure of
\* the 'connection' callback. The 'close' handlers clear both timers and leave
\* nothing that refers to the closure, so a closed connection has no record.
\*   ws          readyState of the socket: "OPEN" or "CLOSING"
\*   agent       None, or Some(deviceId) once authenticated (agent.authenticated
\*               is set to true where agent is created and never changed)
\*   authTimeout "pending" from setTimeout until it fires or is cleared, then "done"
\* Connection ids are names of the model: the n-th accepted connection is n.
ConnIds == DOMAIN conns
RelayTypes == {"offer", "answer", "ice-candidate"}

\* ws.close(code, reason): starts the closing handshake of an open socket; the
\* code goes to the peer and is recorded in ret by the caller
WsCloseCall(conn, code) ==
    IF conn.ws = "OPEN" THEN [conn EXCEPT !.ws = "CLOSING"] ELSE conn

\* messages a client may send
AuthMsg(tok) == [type |-> "auth", token |-> tok, code |-> NoCode, data |-> None]
PairMsg(code, data) == [type |-> "pair", token |-> NoTok, code |-> code, data |-> data]
OtherMsg(type) == [type |-> type, token |-> NoTok, code |-> NoCode, data |-> None]
AuthMessages == {AuthMsg(Some(t)) : t \in AmTokenInputs} \cup {AuthMsg(None)}
PairMessages ==
    {PairMsg(c, Some(n)) : c \in CodeInputs \cup {NoCode}, n \in Names}
        \cup {PairMsg(CODE_MIN, None)}
\* a signaling message, a message of an unknown type, and text that is not JSON
OtherMessages == {OtherMsg(t) : t \in {"offer", "ping", "malformed"}}
Messages == AuthMessages \cup PairMessages \cup OtherMessages

\* server.on('connection')
Connect ==
    /\ deployment = "signaling"
    /\ connCount < MaxConns
    /\ connCount' = connCount + 1
    /\ conns' = MapSet(conns, connCount + 1,
                       [ws |-> "OPEN", agent |-> None, authTimeout |-> "pending"])
    /\ pingIntervals' = pingIntervals \cup {connCount + 1}
    /\ ret' = Ret([op |-> "connection", conn |-> connCount + 1])
    /\ UNCHANGED <<deployment, clientVars, timeVars, httpVars, amVars, connectedAgents, webrtcClients,
                   histVars>>

\* the success branch without clearTimeout(authTimeout)
Authenticated_KeepsTimer(c, deviceId, reply) ==
    /\ UNCHANGED <<connCount, pingIntervals>>
    /\ conns' = [conns EXCEPT ![c].agent = Some(deviceId)]
    /\ connectedAgents' = MapSet(connectedAgents, deviceId, c)
    /\ webrtcClients' = webrtcClients \cup {deviceId}
    /\ ret' = Ret([op |-> "message", conn |-> c, dev |-> deviceId, reply |-> reply])

\* lines 65-84 and 104-127: agent = {...}; connectedAgents.set; clearTimeout;
\* the success reply; onAgentConnected (DesktopMCPServer creates the WebRTCClient)
Authenticated(c, deviceId, reply) ==
    /\ UNCHANGED <<connCount, pingIntervals>>
    /\ conns' = [conns EXCEPT ![c].agent = Some(deviceId), ![c].authTimeout = "done"]
    /\ connectedAgents' = MapSet(connectedAgents, deviceId, c)
    /\ webrtcClients' = webrtcClients \cup {deviceId}
    /\ ret' = Ret([op |-> "message", conn |-> c, dev |-> deviceId, reply |-> reply])

\* the failure branch without ws.close
AuthRejected_NoClose(c) ==
    /\ ret' = Ret([op |-> "message", conn |-> c, ok |-> FALSE,
                   reply |-> "auth-response:Invalid token"])
    /\ UNCHANGED sigVars

\* lines 88-93: auth-response error, ws.close(1008, 'Invalid token')
AuthRejected(c) ==
    /\ conns' = [conns EXCEPT ![c] = WsCloseCall(@, 1008)]
    /\ ret' = Ret([op |-> "message", conn |-> c, ok |-> FALSE, closeCode |-> 1008,
                   reply |-> "auth-response:Invalid token"])
    /\ UNCHANGED <<connCount, connectedAgents, webrtcClients, pingIntervals>>

\* a pair failure handled like an auth failure
PairRejected_Closes(c) ==
    /\ conns' = [conns EXCEPT ![c] = WsCloseCall(@, 1008)]
    /\ ret' = Ret([op |-> "message", conn |-> c, ok |-> FALSE, closeCode |-> 1008,
                   reply |-> "pair-response:Invalid pairing code"])
    /\ UNCHANGED <<connCount, connectedAgents, webrtcClients, pingIntervals>>

\* lines 130-134: pair-response error
PairRejected(c) ==
    /\ ret' = Ret([op |-> "message", conn |-> c, ok |-> FALSE,
                   reply |-> "pair-response:Invalid pairing code"])
    /\ UNCHANGED sigVars

\* a gate that lets the message through to the relay
AuthRequired_Forwards(c) ==
    /\ ret' = Ret([op |-> "message", conn |-> c, relayed |-> TRUE])
    /\ UNCHANGED sigVars

\* lines 137-141: neither an auth message with a token nor a pair message with
\* a code and data
AuthRequired(c) ==
    /\ ret' = Ret([op |-> "message", conn |-> c, ok |-> FALSE,
                   reply |-> "auth-response:Authentication required"])
    /\ UNCHANGED sigVars

\* a handler that takes the device id from the registry of connected agents
AgentDeviceId_Registry(c) ==
    IF DOMAIN connectedAgents = {} THEN ""
    ELSE CHOOSE d \in DOMAIN connectedAgents : TRUE
\* agent.deviceId, agent being the variable of the connection's closure
AgentDeviceId(c) == conns[c].agent[1]

\* a handler that forwards whatever arrives on an authenticated connection
Forward_All(c, m) ==
    /\ ret' = Ret([op |-> "message", conn |-> c, dev |-> AgentDeviceId(c), relayed |-> TRUE])
    /\ UNCHANGED sigVars

\* lines 144-150: a message on an authenticated connection
Forward(c, m) ==
    /\ ret' = Ret([op |-> "message", conn |-> c, dev |-> AgentDeviceId(c),
                   type |-> IF m.type \in RelayTypes THEN m.type ELSE "",
                   relayed |-> (m.type \in RelayTypes)])
    /\ UNCHANGED sigVars

\* lines 152-158: JSON.parse threw
InvalidFormat(c) ==
    /\ ret' = Ret([op |-> "message", conn |-> c, ok |-> FALSE,
                   reply |-> "error:Invalid message format"])
    /\ UNCHANGED sigVars

\* an auth branch that trusts the token alone
getDevice_Skipped(devs, deviceId) == TRUE
\* this.authManager.getDevice(authToken.deviceId) is not null
getDevice(devs, deviceId) == Has(devs, deviceId)

\* ws.on('message') of connection c, the whole handler
OnMessage(c, m) ==
    /\ deployment = "signaling"
    /\ c \in ConnIds
    /\ conns[c].ws = "OPEN"
    /\ IF m.type = "malformed"
       THEN InvalidFormat(c) /\ UNCHANGED amVars
       ELSE IF conns[c].agent = None
       THEN IF m.type = "auth" /\ m.token # None
            THEN LET r == verifyToken(m.token[1])
                     deviceId == IF r.out = None THEN "" ELSE TokenDeviceId(r.out[1])
                 IN /\ IF r.out # None /\ getDevice(r.devices, deviceId)
                       THEN Authenticated(c, deviceId, "auth-response:success")
                       ELSE AuthRejected(c)
                    /\ tokens' = r.tokens
                    /\ devices' = r.devices
                    /\ UNCHANGED <<pairingCodes, uuidCount, codeCount, amIssued>>
            ELSE IF m.type = "pair" /\ m.code # NoCode /\ m.data # None
            THEN LET r == pairDevice(m.code, m.data[1])
                     deviceId == IF r.out = None THEN "" ELSE TokenDeviceId(r.out[1])
                 IN /\ IF r.out # None
                       THEN /\ Authenticated(c, deviceId, "pair-response:success")
                            /\ amIssued' = amIssued \cup {r.out[1]}
                       ELSE /\ PairRejected(c)
                            /\ UNCHANGED amIssued
                    /\ pairingCodes' = r.pairingCodes
                    /\ devices' = r.devices
                    /\ tokens' = r.tokens
                    /\ UNCHANGED <<uuidCount, codeCount>>
            ELSE AuthRequired(c) /\ UNCHANGED amVars
       ELSE Forward(c, m) /\ UNCHANGED amVars
    /\ UNCHANGED <<deployment, clientVars, timeVars, httpVars, histVars>>

\* the authTimeout callback of connection c, 30 s after the 'connection' event
\* unless cleared
AuthTimeout(c) ==
    /\ deployment = "signaling"
    /\ c \in ConnIds
    /\ conns[c].authTimeout = "pending"
    /\ IF conns[c].agent = None
       THEN /\ conns' = [conns EXCEPT ![c] = [WsCloseCall(@, 1008) EXCEPT !.authTimeout = "done"]]
            /\ ret' = Ret([op |-> "authTimeout", conn |-> c, closeCode |-> 1008])
       ELSE /\ conns' = [conns EXCEPT ![c].authTimeout = "done"]
            /\ ret' = Ret([op |-> "authTimeout", conn |-> c])
    /\ UNCHANGED <<deployment, clientVars, timeVars, httpVars, amVars, connCount, connectedAgents,
                   webrtcClients, pingIntervals, histVars>>

\* the interval callback of connection c: ws.ping() on an open socket, which
\* changes nothing the server keeps; clearInterval on a socket that is closing
Ping(c) ==
    /\ deployment = "signaling"
    /\ c \in pingIntervals
    /\ pingIntervals' = IF c \in ConnIds /\ conns[c].ws = "OPEN"
                        THEN pingIntervals
                        ELSE pingIntervals \ {c}
    /\ UNCHANGED <<deployment, clientVars, timeVars, ret, httpVars, amVars, connCount, conns,
                   connectedAgents, webrtcClients, histVars>>

\* a 'close' handler that leaves the interval running
clearInterval_Noop(intervals, c) == intervals
\* clearInterval(pingInterval) of connection c
clearInterval(intervals, c) == intervals \ {c}

\* both ws.on('close') handlers of connection c; the event follows a close by
\* the peer (socket OPEN) or completes a close the server started (CLOSING).
\* onAgentDisconnected is the handler DesktopMCPServer.setupEventHandlers installs.
OnClose(c) ==
    /\ deployment = "signaling"
    /\ c \in ConnIds
    /\ conns' = [x \in ConnIds \ {c} |-> conns[x]]
    /\ pingIntervals' = clearInterval(pingIntervals, c)
    /\ IF conns[c].agent # None
       THEN LET deviceId == conns[c].agent[1] IN
            /\ connectedAgents' = MapDelete(connectedAgents, deviceId)
            /\ devices' = deactivateDevice(devices, deviceId)
            /\ webrtcClients' = webrtcClients \ {deviceId}
            /\ ret' = Ret([op |-> "close", conn |-> c, dev |-> deviceId,
                           disconnected |-> <<deviceId>>])
       ELSE /\ ret' = Ret([op |-> "close", conn |-> c])
            /\ UNCHANGED <<connectedAgents, devices, webrtcClients>>
    /\ UNCHANGED <<deployment, clientVars, timeVars, httpVars, pairingCodes, tokens, uuidCount,
                   codeCount, amIssued, connCount, histVars>>

\* disconnectAgent(deviceId, reason)
disconnectAgent(deviceId) ==
    /\ deployment = "signaling"
    /\ IF ~Has(connectedAgents, deviceId)
       THEN /\ ret' = Ret([op |-> "disconnectAgent", dev |-> deviceId, ok |-> FALSE])
            /\ UNCHANGED conns
       ELSE /\ conns' = [conns EXCEPT ![connectedAgents[deviceId]] = WsCloseCall(@, 1000)]
            /\ ret' = Ret([op |-> "disconnectAgent", dev |-> deviceId,
                           conn |-> connectedAgents[deviceId], closeCode |-> 1000])
    /\ UNCHANGED <<deployment, clientVars, timeVars, httpVars, amVars, connCount, connectedAgents,
                   webrtcClients, pingIntervals, histVars>>

\* what agent.websocket.send(JSON.stringify(message)) does on an open socket:
\* it queues the frame, or one of the two calls throws
SendOutcomes == {"sent", "throws"}

\* sendToAgent without the try / catch
sendToAgent_NoCatch(deviceId, outcome) ==
    /\ deployment = "signaling"
    /\ IF ~Has(connectedAgents, deviceId) \/ conns[connectedAgents[deviceId]].ws # "OPEN"
       THEN ret' = Ret([op |-> "sendToAgent", dev |-> deviceId, ok |-> FALSE])
       ELSE IF outcome = "throws"
       THEN ret' = Ret([op |-> "sendToAgent", dev |-> deviceId, ok |-> FALSE, threw |-> TRUE])
       ELSE ret' = Ret([op |-> "sendToAgent", dev |-> deviceId,
                        conn |-> connectedAgents[deviceId], reply |-> "signaling"])
    /\ UNCHANGED <<deployment, clientVars, timeVars, httpVars, amVars, sigVars, histVars>>

\* sendToAgent(deviceId, message): ok is the boolean it returns; on success
\* conn is the connection whose socket took the message
sendToAgent(deviceId, outcome) ==
    /\ deployment = "signaling"
    /\ IF ~Has(connectedAgents, deviceId) \/ conns[connectedAgents[deviceId]].ws # "OPEN"
       THEN ret' = Ret([op |-> "sendToAgent", dev |-> deviceId, ok |-> FALSE])
       ELSE IF outcome = "throws"
       THEN ret' = Ret([op |-> "sendToAgent", dev |-> deviceId, ok |-> FALSE])
       ELSE ret' = Ret([op |-> "sendToAgent", dev |-> deviceId,
                        conn |-> connectedAgents[deviceId], reply |-> "signaling"])
    /\ UNCHANGED <<deployment, clientVars, timeVars, httpVars, amVars, sigVars, histVars>>

\* ================================================================= clock
Tick ==
    /\ ticks < MaxTicks
    /\ \E d \in TickSteps : now' = now + d
    /\ ticks' = ticks + 1
    /\ UNCHANGED <<deployment, clientVars, ret, httpVars, amVars, sigVars, histVars>>

\* the server is left alone for more than the inactivity threshold, or for
\* more than the lifetime of a token
LongSteps == {INACTIVE_THRESHOLD + 1, TOKEN_EXPIRY + 1}
TickLong ==
    /\ ticks < MaxTicks
    /\ \E d \in LongSteps : now' = now + d
    /\ ticks' = ticks + 1
    /\ UNCHANGED <<deployment, clientVars, ret, httpVars, amVars, sigVars, histVars>>


\* ================================================================= SignalingClient
\* The agent's client of the signaling server. It is constructed with a token
\* (authenticate() sends it) and its WebRTC peer is left out. A socket is
\* "connecting", "open", "closing" (closed by either side, its close event not
\* yet delivered) or "closed"; call is the position of the connect() call that
\* created it: "awaitOpen", "awaitAuth" or "done".
maxReconnectAttempts == 10
NoSocket == 0
NoTimer == 0
SocketIds == 1..MaxSockets
TimerIds == 1..MaxTimers

ClientState ==
    [autoReconnect |-> autoReconnect, isConnected |-> isConnected,
     isAuthenticated |-> isAuthenticated, websocket |-> websocket,
     reconnectTimer |-> reconnectTimer, connectionAttempts |-> connectionAttempts,
     sockets |-> sockets, timers |-> timers, reconnects |-> reconnects,
     everAuthenticated |-> everAuthenticated, disconnected |-> disconnected]

\* a socket that is closed and whose connect() call has ended is referenced by
\* nothing that acts on it again
Collected(socks) ==
    [s \in {x \in DOMAIN socks : ~(socks[x].state = "closed" /\ socks[x].call = "done")} |-> socks[s]]

ClientApply(st) ==
    /\ autoReconnect' = st.autoReconnect
    /\ isConnected' = st.isConnected
    /\ isAuthenticated' = st.isAuthenticated
    /\ websocket' = st.websocket
    /\ reconnectTimer' = st.reconnectTimer
    /\ connectionAttempts' = st.connectionAttempts
    /\ sockets' = Collected(st.sockets)
    /\ timers' = st.timers
    /\ reconnects' = st.reconnects
    /\ everAuthenticated' = st.everAuthenticated
    /\ disconnected' = st.disconnected
    /\ UNCHANGED <<deployment, timeVars, ret, httpVars, amVars, sigVars, histVars>>

\* a new WebSocket / the handle setTimeout returns
NewSocket(st) == CHOOSE s \in SocketIds : s \notin DOMAIN st.sockets
NewTimer(st) == CHOOSE t \in TimerIds : t \notin st.timers
CanCreate(st) == st.isConnected \/ DOMAIN st.sockets # SocketIds
CanSchedule(st) == st.timers # TimerIds

SetCall(st, s, c) == [st EXCEPT !.sockets[s].call = c]
SetState(st, s, c) == [st EXCEPT !.sockets[s].state = c]

handleDisconnection(st) ==
    LET down == [st EXCEPT !.isConnected = FALSE, !.isAuthenticated = FALSE]
    IN  IF down.autoReconnect /\ down.connectionAttempts < maxReconnectAttempts
        THEN LET t == NewTimer(down)
             IN  [down EXCEPT !.connectionAttempts = @ + 1,
                              !.reconnectTimer = t,
                              !.timers = @ \cup {t},
                              !.reconnects = IF @ > maxReconnectAttempts THEN @ ELSE @ + 1]
        ELSE down

handleConnectionError(st) ==
    IF st.autoReconnect THEN handleDisconnection(st) ELSE st

\* connect() up to its first await
connect(st) ==
    IF st.isConnected
    THEN st
    ELSE LET s == NewSocket(st)
         IN  [st EXCEPT !.websocket = s,
                        !.sockets = [x \in DOMAIN @ \cup {s} |->
                                        IF x = s THEN [state |-> "connecting", call |-> "awaitOpen"]
                                        ELSE @[x]]]

\* the owner of the client calls connect()
CallConnect ==
    /\ CanCreate(ClientState)
    /\ ClientApply(connect([ClientState EXCEPT !.disconnected = FALSE]))

\* a reconnect timer fires: this.connect().catch(...)
reconnectTimerFires(t) ==
    /\ t \in timers
    /\ CanCreate(ClientState)
    /\ ClientApply(connect([ClientState EXCEPT !.timers = @ \ {t}]))

disconnect(st) ==
    LET off == [st EXCEPT !.isConnected = FALSE, !.isAuthenticated = FALSE]
        cleared == IF off.reconnectTimer # NoTimer
                   THEN [off EXCEPT !.timers = @ \ {off.reconnectTimer}, !.reconnectTimer = NoTimer]
                   ELSE off
        s == cleared.websocket
    IN  IF s = NoSocket
        THEN cleared
        ELSE [(IF s \in DOMAIN cleared.sockets /\ cleared.sockets[s].state \in {"connecting", "open"}
               THEN SetState(cleared, s, "closing")
               ELSE cleared) EXCEPT !.websocket = NoSocket]

CallDisconnect ==
    ClientApply([disconnect(ClientState) EXCEPT !.disconnected = TRUE])

\* websocket.onopen of socket s, then connect() up to waitForAuthResponse
onopen(s) ==
    /\ s \in DOMAIN sockets
    /\ sockets[s].state = "connecting"
    /\ CanSchedule(ClientState)
    /\ LET up == [SetState(ClientState, s, "open") EXCEPT !.isConnected = TRUE,
                                                          !.connectionAttempts = 0]
       IN  ClientApply(
              IF up.sockets[s].call # "awaitOpen" THEN up
              ELSE IF up.websocket = NoSocket
                   THEN handleConnectionError(SetCall(up, s, "done"))
                   ELSE SetCall(up, s, "awaitAuth"))

\* the connection attempt of socket s fails: websocket.onerror rejects
onerror(s) ==
    /\ s \in DOMAIN sockets
    /\ sockets[s].state = "connecting"
    /\ CanSchedule(ClientState)
    /\ LET failed == SetState(ClientState, s, "closing")
       IN  ClientApply(
              IF failed.sockets[s].call = "awaitOpen"
              THEN handleConnectionError(SetCall(failed, s, "done"))
              ELSE failed)

\* the 10 s timer of connect()
connectionTimeout(s) ==
    /\ s \in DOMAIN sockets
    /\ sockets[s].call = "awaitOpen"
    /\ ~isConnected
    /\ CanSchedule(ClientState)
    /\ ClientApply(handleConnectionError(SetCall(ClientState, s, "done")))

\* the auth-response of the server arrives on socket s; after a rejection the
\* server closes the connection (signaling.ts, ws.close(1008))
authResponse(s, success) ==
    /\ s \in DOMAIN sockets
    /\ sockets[s].state = "open"
    /\ sockets[s].call = "awaitAuth"
    /\ CanSchedule(ClientState)
    /\ ClientApply(
          IF success
          THEN [SetCall(ClientState, s, "done") EXCEPT !.isAuthenticated = TRUE,
                                                       !.everAuthenticated = TRUE]
          ELSE handleConnectionError(SetState(SetCall(ClientState, s, "done"), s, "closing")))

\* the 10 s timer of waitForAuthResponse()
authTimeout(s) ==
    /\ s \in DOMAIN sockets
    /\ sockets[s].call = "awaitAuth"
    /\ CanSchedule(ClientState)
    /\ ClientApply(handleConnectionError(SetCall(ClientState, s, "done")))

\* the close event of socket s: closed by disconnect(), by the server, or lost
onclose(s) ==
    /\ s \in DOMAIN sockets
    /\ sockets[s].state \in {"open", "closing"}
    /\ CanSchedule(ClientState)
    /\ ClientApply(handleDisconnection(SetState(ClientState, s, "closed")))

NextClient ==
    \/ CallConnect
    \/ CallDisconnect
    \/ \E t \in TimerIds : reconnectTimerFires(t)
    \/ \E s \in SocketIds : onopen(s)
    \/ \E s \in SocketIds : onerror(s)
    \/ \E s \in SocketIds : connectionTimeout(s)
    \/ \E s \in SocketIds, success \in BOOLEAN : authResponse(s, success)
    \/ \E s \in SocketIds : authTimeout(s)
    \/ \E s \in SocketIds : onclose(s)

\* new SignalingClient(options)
InitSignalingClient ==
    /\ isConnected = FALSE
    /\ isAuthenticated = FALSE
    /\ websocket = NoSocket
    /\ reconnectTimer = NoTimer
    /\ connectionAttempts = 0
    /\ sockets = <<>>
    /\ timers = {}
    /\ reconnects = 0
    /\ everAuthenticated = FALSE
    /\ disconnected = FALSE

\* ================================================================= behaviours
\* main() of the HTTP server: initAuth() with an empty config directory, then
\* the first pairing window (no devices paired yet)
InitHttp ==
    /\ deployment = "http"
    /\ pairedDevices = <<>>
    /\ serverSecret = "secret"
    /\ randomCount = 0
    /\ httpIssued = <<>>
    /\ tokensFile = None
    /\ secretFile = Some(serverSecret)
    /\ apiKey \in {None, Some(ApiKey)}
    /\ \E r \in RandomDraws :
          activePairingSession = Some([code |-> RandomCode(r), expiresAt |-> now + FIRST_PAIRING_TTL])

\* new AuthManager(); new SignalingServer(8080, authManager); setupEventHandlers()
InitSignaling ==
    /\ deployment = "signaling"
    /\ activePairingSession = None
    /\ pairedDevices = <<>>
    /\ serverSecret = ""
    /\ randomCount = 0
    /\ httpIssued = <<>>
    /\ tokensFile = None
    /\ secretFile = None
    /\ apiKey = None

InitServers ==
    /\ now = 1
    /\ ticks = 0
    /\ ret = RetDefault
    /\ pairingCodes = <<>>
    /\ devices = <<>>
    /\ tokens = {}
    /\ uuidCount = 0
    /\ codeCount = 0
    /\ amIssued = {}
    /\ connCount = 0
    /\ conns = <<>>
    /\ connectedAgents = <<>>
    /\ webrtcClients = {}
    /\ pingIntervals = {}
    /\ consumed = {}
    /\ discarded = NoCode
    /\ fsWritable = TRUE
    /\ restarts = 0
    /\ activeSessions = {}
    /\ sessionCount = 0
    /\ inFlight = {}
    /\ (InitHttp \/ InitSignaling)

\* options.autoReconnect !== false: reconnection is on unless switched off
Init == InitServers /\ InitSignalingClient /\ autoReconnect = TRUE
\* the agent, constructed with either value of options.autoReconnect, and the
\* signaling server it talks to
InitAgent ==
    InitServers /\ InitSignalingClient /\ autoReconnect \in BOOLEAN /\ deployment = "signaling"

NextHttp ==
    \/ \E ttl \in TtlInputs : startPairing(ttl)
    \/ \E code \in CodeInputs : completePairing(code)
    \/ \E token \in HttpTokenInputs : validateToken(token)
    \/ \E id \in DeviceIdsOf(pairedDevices) \cup {"non-existent"} : revokeDevice(id)
    \/ revokeAll

DeviceIdInputs == {CustomDeviceId} \cup DOMAIN devices

\* every public method of AuthManager, called directly
NextAuthManager ==
    \/ \E id \in {None} \cup {Some(d) : d \in DeviceIdInputs} : generatePairingCode(id)
    \/ \E code \in CodeInputs, name \in Names : CallPairDevice(code, name)
    \/ \E token \in AmTokenInputs : CallVerifyToken(token)
    \/ \E id \in DeviceIdInputs : removeDevice(id)
    \/ \E id \in DeviceIdInputs : CallDeactivateDevice(id)
    \/ cleanupExpired

\* the signaling server: DesktopMCPServer.generatePairingCode passes no device
\* id; pairDevice, verifyToken and deactivateDevice are reached through the
\* connection handlers; disconnectAgent is called with the id of a device the
\* MCP client selected earlier
NextSignaling ==
    \/ generatePairingCode(None)
    \/ \E id \in DOMAIN devices : removeDevice(id)
    \/ cleanupExpired
    \/ Connect
    \/ \E c \in ConnIds, m \in Messages : OnMessage(c, m)
    \/ \E c \in ConnIds : AuthTimeout(c)
    \/ \E c \in ConnIds : OnClose(c)
    \/ \E id \in DOMAIN devices : disconnectAgent(id)

\* an AuthManager that pairs and verifies devices between sweeps; no caller
\* deactivates or removes a device
NextSweep ==
    \/ \E id \in {None, Some(CustomDeviceId)} : generatePairingCode(id)
    \/ \E code \in CodeInputs, name \in Names : CallPairDevice(code, name)
    \/ \E token \in AmTokenInputs : CallVerifyToken(token)
    \/ cleanupExpired

\* the exported functions of src/auth.ts that the HTTP server calls, and a
\* device store that stops and starts taking writes
NextHttpApi ==
    \/ CallListDevices
    \/ \E auth \in AuthInputs : CallAuthenticate(auth)
    \/ FsFault

\* the HTTP server: requests and restarts
NextHttpServer ==
    \/ \E req \in Requests : handler(req)
    \/ Restart

\* the agent registry: connections that pair, authenticate and close, the
\* ping intervals, and the calls DesktopMCPServer makes on the registry
NextAgents ==
    \/ generatePairingCode(None)
    \/ \E id \in DOMAIN devices : removeDevice(id)
    \/ Connect
    \/ \E c \in ConnIds, m \in Messages : OnMessage(c, m)
    \/ \E c \in ConnIds : AuthTimeout(c)
    \/ \E c \in pingIntervals : Ping(c)
    \/ \E c \in ConnIds : OnClose(c)
    \/ \E id \in DOMAIN devices : disconnectAgent(id)
    \/ \E id \in DOMAIN devices, outcome \in SendOutcomes : sendToAgent(id, outcome)

\* the handler taken in two parts, before and after its await
NextAwait ==
    \/ \E req \in OvertakingRequests : handler(req)
    \/ \E req \in SuspendRequests : handlerSuspend(req)
    \/ \E k \in inFlight : handlerResume(k)

Next ==
    \/ Tick
    \/ NextHttp
    \/ NextAuthManager
    \/ NextSignaling
    \/ NextAgents
    \/ NextHttpApi
    \/ NextHttpServer
    \/ NextAwait
    \/ TickLong
    \/ NextClient

Spec == Init /\ [][Next]_vars

\* the two auth components driven through their public operations
InitAuth == Init /\ apiKey = None

SpecAuth == InitAuth /\ [][Tick \/ NextHttp \/ NextAuthManager]_vars

\* the signaling deployment driven through its connections
InitSignalingServer == Init /\ deployment = "signaling"

SpecSignaling == InitSignalingServer /\ [][Tick \/ NextSignaling]_vars

\* the AuthManager over long periods
SpecSweep == InitSignalingServer /\ [][TickLong \/ NextSweep]_vars

InitHttpServer == Init /\ deployment = "http"
InitHttpApi == InitAuth /\ deployment = "http"

\* src/auth.ts driven through its exported functions, with write failures
SpecHttpApi == InitHttpApi /\ [][NextHttp \/ NextHttpApi]_vars

\* the HTTP server driven through its requests
SpecHttp == InitHttpServer /\ [][NextHttpServer]_vars

\* the agent registry of the signaling deployment
\* the two generators of pairing codes, called with every kind of argument,
\* and the completions that consume the codes
NextCodes ==
    \/ \E ttl \in TtlArguments : startPairing(ttl)
    \/ \E code \in CodeInputs : completePairing(code)
    \/ \E id \in {None, Some(CustomDeviceId)} : generatePairingCode(id)
    \/ \E code \in CodeInputs, name \in Names : CallPairDevice(code, name)
SpecCodes == InitAuth /\ [][Tick \/ NextCodes]_vars

\* both servers, with every request and every message, well-formed or not
SpecInvalidInput == Init /\ [][NextHttpServer \/ NextAgents]_vars

\* the HTTP server with handlers that other requests overtake at their awaits
SpecAwait == InitHttpServer /\ [][NextAwait]_vars

\* the signaling server with connections that stay open while the clock and
\* the sweep go on
SpecLongLived == InitSignalingServer /\ [][TickLong \/ cleanupExpired \/ NextAgents]_vars

\* the SignalingClient of the agent, driven by its owner, its timers and its sockets
SpecClient == InitAgent /\ [][NextClient]_vars

SpecAgents == InitSignalingServer /\ [][NextAgents]_vars

\* ================================================================= properties
HttpPending(k) == activePairingSession # None /\ activePairingSession[1].code = k
HttpAccepts(k) == HttpPending(k) /\ ~(now > activePairingSession[1].expiresAt)
AmAccepts(k) == Has(pairingCodes, k) /\ ~(pairingCodes[k].expiresAt < now)
AcceptedCodes == {k \in Codes : HttpAccepts(k) \/ AmAccepts(k)}
Unauthenticated(c) == conns[c].agent = None
\* a pair message that reaches the pairing branch
WellFormedPair(m) == m.type = "pair" /\ m.code # NoCode /\ m.data # None
\* the connection whose message handler has just run on it unauthenticated
\* (OnMessage(c, m) sets ret'.op to "message" and ret'.conn to c); no
\* connection after any other step
HandledUnauth ==
    IF ret'.op = "message" THEN {c \in {ret'.conn} \cap ConnIds : Unauthenticated(c)} ELSE {}

\* C1: a pairing code is single-use. A code that a successful completePairing /
\* pairDevice has used is no longer pending, and every completion attempt with
\* it fails and registers nothing, until a generator issues that value again.
C1_SingleUse ==
    /\ [](\A k \in consumed : ~HttpPending(k) /\ ~Has(pairingCodes, k))
    /\ [][/\ \A k \in consumed :
                completePairing(k) => ~ret'.ok /\ pairedDevices' = pairedDevices
          /\ \A k \in consumed, n \in Names :
                CallPairDevice(k, n) => ~ret'.ok /\ devices' = devices]_vars

\* a completion attempt with a used-up code has just failed
C1_Witness ==
    /\ ret.op \in {"completePairing", "pairDevice"}
    /\ ~ret.ok
    /\ ret.code \in consumed

\* C2: after revokeDevice / removeDevice / revokeAll the device is not listed,
\* every later validateToken / verifyToken with a token issued to a device that
\* is no longer registered returns null, and revokeAll returns the number of
\* devices registered before the call.
C2_RevokedTokenFails ==
    [][/\ \A id \in DeviceIdsOf(pairedDevices) :
            revokeDevice(id) => id \notin DeviceIdsOf(pairedDevices')
       /\ revokeAll => ret'.n = Len(pairedDevices) /\ pairedDevices' = <<>>
       /\ \A d \in DOMAIN httpIssued :
            validateToken(httpIssued[d]) /\ d \notin DeviceIdsOf(pairedDevices) => ~ret'.ok
       /\ \A id \in DOMAIN devices : removeDevice(id) => ~Has(devices', id)
       /\ \A t \in amIssued :
            CallVerifyToken(t) /\ ~Has(devices, TokenDeviceId(t)) => ~ret'.ok]_vars

C4_SupersededClosed ==
    [][\A c \in HandledUnauth :
            conns'[c].agent # None /\ (\E m \in Messages : OnMessage(c, m)) =>
                /\ connectedAgents'[conns'[c].agent[1]] = c
                /\ \A c1 \in ConnIds \ {c} :
                        conns[c1].agent = conns'[c].agent => conns'[c1].ws # "OPEN"]_vars

\* C5: removing a device that has a live signaling connection closes that
\* connection: the server starts the close, and no open connection of a
\* removed device stays in the registry.
C5_RevocationCloses ==
    [][\A id \in DOMAIN devices :
            removeDevice(id) /\ Has(connectedAgents, id) =>
                \/ ~Has(connectedAgents', id)
                \/ ~Has(conns', connectedAgents'[id])
                \/ conns'[connectedAgents'[id]].ws # "OPEN"]_vars

AmVerifies(t) == verifyToken(t).out # None
HttpVerifies(t) == FindByHash(pairedDevices, Hmac(serverSecret, t)) # 0

\* C6: tokens and devices are bound 1:1. Every registered device has exactly
\* one token that verifies for it, and every token that verifies belongs to a
\* registered device.
C6_OneToOne ==
    /\ \A d \in DOMAIN devices :
            Cardinality({t \in AmTokenInputs : AmVerifies(t) /\ TokenDeviceId(t) = d}) = 1
    /\ \A t \in AmTokenInputs : AmVerifies(t) => Has(devices, TokenDeviceId(t))
    /\ \A i \in 1..Len(pairedDevices) :
            Cardinality({t \in HttpTokenInputs :
                            Hmac(serverSecret, t) = pairedDevices[i].tokenHash}) = 1
    /\ \A t \in HttpTokenInputs :
            HttpVerifies(t) =>
                Cardinality({i \in 1..Len(pairedDevices) :
                                pairedDevices[i].tokenHash = Hmac(serverSecret, t)}) = 1

AuthErrors == {"auth-response:Invalid token", "auth-response:Authentication required"}

C8_AuthTimer ==
    /\ [](\A c \in ConnIds : conns[c].agent # None => conns[c].authTimeout # "pending")
    /\ [][\A c \in ConnIds :
            AuthTimeout(c) =>
                /\ Unauthenticated(c)
                /\ ret'.closeCode = 1008
                /\ conns'[c].ws # "OPEN"]_vars

\* the timer has just closed an unauthenticated connection
C8_Witness ==
    /\ ret.op = "authTimeout"
    /\ ret.closeCode = 1008
    /\ conns[ret.conn].ws = "CLOSING"
    /\ conns[ret.conn].agent = None
    /\ \E c \in ConnIds : conns[c].agent # None /\ conns[c].ws = "OPEN"

\* C9: a message on a connection that has not authenticated never reaches
\* onSignalingMessage; unless it is an auth or pair message it is answered
\* with an error and changes nothing.
C9_GateBeforeAuth ==
    [][\A c \in HandledUnauth :
            /\ ret'.relayed => \A m \in Messages : ~OnMessage(c, m)
            /\ \A m \in OtherMessages :
                    OnMessage(c, m) =>
                        /\ ret'.reply \in {"auth-response:Authentication required",
                                           "error:Invalid message format"}
                        /\ conns' = conns
                        /\ connectedAgents' = connectedAgents]_vars

\* an unauthenticated connection has just been told to authenticate
C9_Witness ==
    /\ ret.op = "message"
    /\ ret.reply = "auth-response:Authentication required"
    /\ ~ret.relayed
    /\ conns[ret.conn].agent = None
    /\ conns[ret.conn].ws = "OPEN"

\* C10: a pair message whose code is not accepted (wrong, unknown or expired)
\* is answered with a pair-response error and changes neither the connection
\* nor the pending codes; a pair message with an accepted code on an open
\* unauthenticated connection succeeds.
C10_PairRetry ==
    [][\A c \in HandledUnauth, m \in PairMessages :
            WellFormedPair(m) /\ OnMessage(c, m) =>
                IF AmAccepts(m.code)
                THEN /\ ret'.reply = "pair-response:success"
                     /\ conns'[c].agent # None
                ELSE /\ ret'.reply = "pair-response:Invalid pairing code"
                     /\ conns' = conns
                     /\ pairingCodes' = pairingCodes
                     /\ devices' = devices]_vars

\* a pair attempt has just been refused on a connection that is still open
\* and unauthenticated while a valid code is pending
C10_Witness ==
    /\ ret.op = "message"
    /\ ret.reply = "pair-response:Invalid pairing code"
    /\ conns[ret.conn].ws = "OPEN"
    /\ conns[ret.conn].agent = None
    /\ conns[ret.conn].authTimeout = "pending"
    /\ \E k \in Codes : AmAccepts(k)

\* a timer of connection c that can still fire
TimerPending(c) ==
    \/ c \in ConnIds /\ conns[c].authTimeout = "pending"
    \/ c \in pingIntervals

\* C11: when a connection that had authenticated closes, the registry has no
\* entry for its device, the device record (if there still is one) is inactive
\* and onAgentDisconnected is called once, with the device id; when an
\* unauthenticated connection closes the handler is not called and registry
\* and devices stay as they were; either way neither timer of the connection
\* is left pending.
C11_CloseCleansUp ==
    [][\A c \in ConnIds :
            OnClose(c) =>
                /\ ~TimerPending(c)'
                /\ IF conns[c].agent # None
                   THEN LET d == conns[c].agent[1] IN
                        /\ ~Has(connectedAgents', d)
                        /\ Has(devices, d) => Has(devices', d) /\ ~devices'[d].isActive
                        /\ ret'.disconnected = <<d>>
                   ELSE /\ ret'.disconnected = <<>>
                        /\ connectedAgents' = connectedAgents
                        /\ devices' = devices]_vars

\* an authenticated connection has just closed while another connection is
\* still open: its device is inactive and out of the registry, and no timer
\* of a closed connection is left
C11_Witness ==
    /\ ret.op = "close"
    /\ ret.disconnected = <<ret.dev>>
    /\ ~Has(connectedAgents, ret.dev)
    /\ Has(devices, ret.dev) /\ ~devices[ret.dev].isActive
    /\ ~TimerPending(ret.conn)
    /\ ConnIds # {}

\* C16 as stated: sendToAgent returns false when the registry has no
\* connection for the device or its socket is not open, true in every other
\* case, and never throws.
C16_SendToAgent ==
    [][\A id \in DOMAIN devices, outcome \in SendOutcomes :
            sendToAgent(id, outcome) =>
                /\ ~ret'.threw
                /\ ret'.ok <=> /\ Has(connectedAgents, id)
                               /\ conns[connectedAgents[id]].ws = "OPEN"]_vars

\* C16 amended: sendToAgent never throws; it returns false when the registry
\* has no connection for the device, when its socket is not open, and when
\* serialising or sending the message throws; it returns true exactly when
\* the open socket of the registered connection took the message.
C16_Amended ==
    [][\A id \in DOMAIN devices, outcome \in SendOutcomes :
            sendToAgent(id, outcome) =>
                /\ ~ret'.threw
                /\ ret'.ok <=> /\ Has(connectedAgents, id)
                               /\ conns[connectedAgents[id]].ws = "OPEN"
                               /\ outcome = "sent"
                /\ ret'.ok => ret'.conn = connectedAgents[id] /\ ret'.reply = "signaling"
                /\ UNCHANGED <<conns, connectedAgents, devices>>]_vars

\* a send on the open socket of a registered agent has just failed and
\* sendToAgent returned false
C16_Witness ==
    /\ ret.op = "sendToAgent"
    /\ ~ret.ok
    /\ ~ret.threw
    /\ Has(connectedAgents, ret.dev)
    /\ conns[connectedAgents[ret.dev]].ws = "OPEN"

\* a request that the handler answers before the gate
Public(req) ==
    \/ req.method = "OPTIONS"
    \/ req.url = <<"health">>
    \/ req.url = <<"pair">> /\ req.method = "POST"
\* the credential is the token issued to a device that is paired now
PairedToken(cred) ==
    \E d \in DeviceIdsOf(pairedDevices) \cap DOMAIN httpIssued : httpIssued[d] = cred
\* the request carries the token of a paired device or the configured API key
Credentialed(req) ==
    /\ req.auth # None
    /\ \/ PairedToken(req.auth[1].cred)
       \/ apiKey # None /\ req.auth[1].cred = apiKey[1]

\* C12: a request other than OPTIONS, /health and POST /pair that carries no
\* Authorization header, or a credential that is neither the token of a
\* currently paired device nor the API key, is answered 401 and changes
\* neither the devices, nor the pairing window, nor the sessions: in every
\* state the handler's outcome for such a request is 401 with the state as it is.
C12_Gate ==
    \A req \in GatedRequests :
        ~Public(req) /\ ~Credentialed(req) =>
            LET res == Handle(req) IN
            /\ res.status = 401
            /\ ~res.threw
            /\ res.devs = pairedDevices
            /\ res.file = tokensFile
            /\ res.issued = httpIssued
            /\ res.randomCount = randomCount
            /\ res.pairing = activePairingSession
            /\ res.sessions = activeSessions
            /\ res.sessionCount = sessionCount

\* a request has just been refused while a device is paired, a session is
\* registered and the token of a revoked device is still in a client's hands
C12_Witness ==
    /\ ret.op = "request"
    /\ ret.n = 401
    /\ pairedDevices # <<>>
    /\ activeSessions # {}
    /\ DOMAIN httpIssued \ DeviceIdsOf(pairedDevices) # {}

C13_ExpiredCodeFails ==
    [][/\ \A k \in CodeInputs :
            /\ HttpPending(k)
            /\ now > activePairingSession[1].expiresAt
            /\ completePairing(k)
            => /\ ~ret'.ok
               /\ ret'.out = None
               /\ pairedDevices' = pairedDevices
               /\ tokensFile' = tokensFile
               /\ httpIssued' = httpIssued
       /\ \A k \in CodeInputs, n \in Names :
            /\ Has(pairingCodes, k)
            /\ now > pairingCodes[k].expiresAt
            /\ CallPairDevice(k, n)
            => /\ ~ret'.ok
               /\ devices' = devices
               /\ tokens' = tokens
               /\ amIssued' = amIssued]_vars

\* pairDevice has just refused the code that is still stored but has expired
C13_Witness ==
    /\ ret.op = "pairDevice"
    /\ ~ret.ok
    /\ Has(pairingCodes, ret.code)
    /\ now > pairingCodes[ret.code].expiresAt

\* C14: while the device store cannot be written, validateToken with the
\* token of a paired device still returns the device, and completePairing
\* with the accepted code still returns the token and closes the window.
C14_SaveFailureTolerated ==
    [][~fsWritable =>
        /\ \A t \in HttpTokenInputs :
                HttpVerifies(t) /\ validateToken(t) => ret'.ok /\ ~ret'.threw
        /\ \A k \in CodeInputs :
                PairingAccepts(HttpState, k) /\ completePairing(k) =>
                    /\ ret'.ok
                    /\ ~ret'.threw
                    /\ activePairingSession' = None]_vars

\* the value an exported function returned carries a tokenHash
ReturnsTokenHash ==
    /\ ret.out # None
    /\ IF ret.op = "listDevices"
       THEN \E i \in 1..Len(ret.out[1]) : "tokenHash" \in DOMAIN ret.out[1][i]
       ELSE "tokenHash" \in DOMAIN ret.out[1]

\* C17: no value returned by completePairing, validateToken, authenticate or
\* listDevices contains a tokenHash.
C17_HashStaysInside ==
    ret.op \in {"completePairing", "validateToken", "authenticate", "listDevices"}
        => ~ReturnsTokenHash

\* C18: in every state, after any pairings, validations and revocations, no
\* element of what listDevices() returns has a tokenHash field, and every
\* paired device is listed with its other fields.
C18_ListWithoutHash ==
    /\ Len(listDevices) = Len(pairedDevices)
    /\ \A i \in 1..Len(listDevices) :
            /\ "tokenHash" \notin DOMAIN listDevices[i]
            /\ \A f \in DOMAIN pairedDevices[i] \ {"tokenHash"} :
                    listDevices[i][f] = pairedDevices[i][f]
    /\ ret.op = "listDevices" => ret.out = Some(listDevices)

\* listDevices has just returned the devices that are left after a revocation
C18_Witness ==
    /\ ret.op = "listDevices"
    /\ ret.n > 0
    /\ DOMAIN httpIssued \ DeviceIdsOf(pairedDevices) # {}
    /\ \A i \in 1..Len(ret.out[1]) : "tokenHash" \notin DOMAIN ret.out[1][i]

\* C20: the sweep keeps the set of devices; it deletes exactly the pairing
\* codes and cached tokens whose expiresAt is in the past, sets isActive to
\* false on exactly the devices last seen more than 10 minutes ago, and
\* leaves every other field and everything else as it was.
C20_SweepFrame ==
    [][cleanupExpired =>
        /\ DOMAIN devices' = DOMAIN devices
        /\ \A d \in DOMAIN devices :
                devices'[d] = IF devices[d].lastSeen < now - INACTIVE_THRESHOLD
                              THEN [devices[d] EXCEPT !.isActive = FALSE]
                              ELSE devices[d]
        /\ DOMAIN pairingCodes' = {k \in DOMAIN pairingCodes : pairingCodes[k].expiresAt >= now}
        /\ \A k \in DOMAIN pairingCodes' : pairingCodes'[k] = pairingCodes[k]
        /\ tokens' = {t \in tokens : TokenExpiresAt(t) >= now}
        /\ UNCHANGED <<amIssued, uuidCount, codeCount, sigVars, httpVars>>]_vars

\* after a sweep: a device last seen long ago is inactive next to an active
\* one seen since, and the expired token of the former is out of the cache
C20_Witness ==
    /\ \E a \in DOMAIN devices :
            /\ ~devices[a].isActive
            /\ devices[a].lastSeen < now - INACTIVE_THRESHOLD
            /\ \E t \in amIssued \ tokens : TokenDeviceId(t) = a /\ TokenExpiresAt(t) < now
    /\ \E b \in DOMAIN devices :
            /\ devices[b].isActive
            /\ devices[b].lastSeen >= now - INACTIVE_THRESHOLD
    /\ \A k \in DOMAIN pairingCodes : pairingCodes[k].expiresAt >= now
\* ------------------------------------------------------------ C21
\* the cached tokens whose expiresAt is earlier than the current time
ExpiredCached == {t \in tokens : TokenExpiresAt(t) < now}

\* C21: verifyToken never returns a token whose expiresAt is earlier than the
\* current time, whether the token is in the cache or has to pass the signature
\* check, and a call made with an expired cached token fails and leaves the
\* token out of the cache.
C21_NoExpiredToken ==
    [][\A t \in AmTokenInputs :
         CallVerifyToken(t) =>
            /\ ret'.ok => TokenExpiresAt(t) >= now
            /\ t \in ExpiredCached => ~ret'.ok /\ t \notin tokens']_vars

\* an expired token was presented from the cache, refused and dropped, and is
\* refused again on the signature path
C21_Witness ==
    /\ ret.op = "verifyToken" /\ ~ret.ok /\ ret.removed = 1
    /\ \E t \in amIssued : /\ TokenExpiresAt(t) < now /\ t \notin tokens
                           /\ verifyToken(t).out = None
\* ------------------------------------------------------------ C22
\* the stored credential of every device, by device id
HttpHashes == {<<pairedDevices[i].id, pairedDevices[i].tokenHash>> : i \in DOMAIN pairedDevices}
LastSeenIn(devs, id) == devs[CHOOSE i \in DOMAIN devs : devs[i].id = id].lastSeen
HttpLastSeen(id) == LastSeenIn(pairedDevices, id)

C23_CodeShape ==
    [][/\ \A ttl \in TtlArguments :
            ret'.op = "startPairing" /\ startPairing(ttl) =>
               /\ DecimalDigits(ret'.code) = 6
               /\ activePairingSession'[1].code = ret'.code
               /\ activePairingSession'[1].expiresAt > now
       /\ \A id \in {None, Some(CustomDeviceId)} :
            ret'.op = "generatePairingCode" /\ generatePairingCode(id) =>
               /\ DecimalDigits(ret'.code) = 6
               /\ pairingCodes'[ret'.code].expiresAt > pairingCodes'[ret'.code].timestamp
               /\ pairingCodes'[ret'.code].timestamp = now]_vars
\* ------------------------------------------------------------ C24
\* the pairing window that main() opens: pending, FIRST_PAIRING_TTL seconds
\* long from the time of the start, and reported by isPairingActive
FirstWindow(pairing) ==
    /\ pairing # None
    /\ pairing[1].expiresAt = now + FIRST_PAIRING_TTL
    /\ isPairingActiveIn([HttpState EXCEPT !.pairing = pairing]).out = Some(TRUE)

\* C24: a start of the HTTP server with no paired device opens a pairing
\* window of 300 s (isPairingActive is true), the very first start included;
\* a start that loads one paired device or more opens none.
C24_FirstPairingWindow ==
    /\ [](ret.op = "init" => pairedDevices = <<>> /\ FirstWindow(activePairingSession))
    /\ [][Restart => IF pairedDevices' = <<>>
                     THEN FirstWindow(activePairingSession')
                     ELSE /\ activePairingSession' = None
                          /\ isPairingActiveIn(HttpState)'.out = None]_vars

\* the server came back with a paired device in its store and no window
C24_Witness ==
    /\ ret.op = "restart" /\ ret.n > 0
    /\ pairedDevices # <<>> /\ activePairingSession = None
\* ------------------------------------------------------------ C25
\* connection c has authenticated (agent is set, and agent.authenticated is
\* true from the moment it is)
IsAuthenticated(c) == c \in ConnIds /\ conns[c].agent # None

\* C25 as stated: every message that arrives on an authenticated connection
\* is handed to onSignalingMessage, whatever its type.
C25_AllForwarded ==
    [][\A c \in ConnIds, m \in Messages :
         IsAuthenticated(c) /\ ret'.op = "message" /\ OnMessage(c, m) => ret'.relayed]_vars

\* C25 amended: a message that arrives on an authenticated connection is
\* handed to onSignalingMessage exactly when it parses and its type is offer,
\* answer or ice-candidate; one of another type is dropped without a reply,
\* one that does not parse is answered with the format error, and in every
\* case the connection, the registry and the AuthManager stay as they were.
C25_Amended ==
    [][\A c \in ConnIds, m \in Messages :
         IsAuthenticated(c) /\ ret'.op = "message" /\ OnMessage(c, m) =>
            /\ ret'.relayed <=> m.type \in RelayTypes
            /\ ret'.reply = IF m.type = "malformed" THEN "error:Invalid message format" ELSE ""
            /\ ret'.closeCode = 0
            /\ UNCHANGED <<sigVars, amVars>>]_vars

\* a message of a type that is not relayed arrived on an authenticated
\* connection and went nowhere
C25_Witness ==
    /\ ret.op = "message" /\ ret.ok /\ ret.dev # "" /\ ret.reply = "" /\ ~ret.relayed
    /\ IsAuthenticated(ret.conn)
\* ------------------------------------------------------------ C30
\* The 'message' handler has no await, so each event is handled to the end
\* before the next one is emitted: a step of OnMessage is one arrival.
\* C30: a message of a relayed type that arrives on an authenticated
\* connection is passed to onSignalingMessage within the handling of that very
\* arrival (so before any later arrival is looked at), with its own type and
\* with the deviceId the connection authenticated as; the callback is invoked
\* by nothing but such an arrival, and the deviceId of a connection never
\* changes once it is set, for as long as the connection exists.
C30_ArrivalOrder ==
    [][/\ \A c \in ConnIds, m \in Messages :
            IsAuthenticated(c) /\ m.type \in RelayTypes /\ ret'.op = "message" /\ OnMessage(c, m) =>
               /\ ret'.relayed /\ ret'.conn = c /\ ret'.type = m.type
               /\ ret'.dev = conns[c].agent[1]
       /\ ret'.relayed /\ ret' # ret =>
            \E c \in ConnIds, m \in Messages :
               IsAuthenticated(c) /\ m.type \in RelayTypes /\ OnMessage(c, m)
       /\ \A c \in ConnIds \cap DOMAIN conns' :
            IsAuthenticated(c) => conns'[c].agent = conns[c].agent]_vars

\* two connections are authenticated and a message of the second one to
\* authenticate has just been passed on under that connection's device
C30_Witness ==
    /\ ret.op = "message" /\ ret.relayed /\ ret.type = "offer"
    /\ \A c \in 1..MaxConns : IsAuthenticated(c)
    /\ ret.dev = conns[ret.conn].agent[1]
\* ------------------------------------------------------------ C26
\* C26: a completion attempt made after the expiresAt of the pending code
\* fails and discards that code: after a failed completePairing no pairing
\* session is pending, and after a failed pairDevice(code) the code is no
\* longer in pairingCodes.
C26_ExpiredAttemptDiscards ==
    [][/\ \A code \in CodeInputs :
            /\ activePairingSession # None
            /\ activePairingSession[1].expiresAt < now
            /\ ret'.op = "completePairing" /\ completePairing(code)
            => ~ret'.ok /\ activePairingSession' = None
       /\ \A code \in CodeInputs, name \in Names :
            /\ Has(pairingCodes, code)
            /\ pairingCodes[code].expiresAt < now
            /\ ret'.op = "pairDevice" /\ CallPairDevice(code, name)
            => ~ret'.ok /\ ~Has(pairingCodes', code)]_vars
\* ------------------------------------------------------------ C29
\* C29: deactivateDevice changes nothing but isActive of the device it names
\* (the device stays registered, every cached token stays cached and
\* verifiable), and a successful verifyToken with a token of a registered
\* device leaves that device with isActive = true.
C29_DeactivateFrame ==
    [][/\ \A id \in DeviceIdInputs :
            ret'.op = "deactivateDevice" /\ CallDeactivateDevice(id) =>
               /\ DOMAIN devices' = DOMAIN devices
               /\ \A d \in DOMAIN devices :
                     devices'[d] = IF d = id THEN [devices[d] EXCEPT !.isActive = FALSE]
                                   ELSE devices[d]
               /\ tokens' = tokens
               /\ \A t \in tokens : (verifyToken(t).out # None) => (verifyToken(t)'.out # None)
       /\ \A t \in AmTokenInputs :
            ret'.op = "verifyToken" /\ CallVerifyToken(t) /\ ret'.ok /\ Has(devices, ret'.dev)
            => devices'[ret'.dev].isActive]_vars
\* ------------------------------------------------------------ C27
\* the entry of the session Map that a POST /mcp request is served by
SessionKeyOf(req, res) ==
    [deviceId |-> res.dev,
     sessionId |-> IF req.session = None THEN SessionId(res.sessionCount) ELSE req.session[1]]

\* C27: the session registry is keyed by (deviceId, sessionId). In every state,
\* an authenticated /mcp request that carries the id of a session registered
\* for its device is served by that entry and leaves the registry and the
\* count of generated ids as they are, one without a session id adds exactly
\* its own new entry, and whatever request removes an entry revokes, in the
\* same step, the device the entry belongs to. (The registry is modelled by its key set;
\* the timestamps of an entry are not part of it.)
C27_SessionRegistry ==
    \A req \in Requests :
        LET res == Handle(req) IN
        /\ req.url = <<"mcp">> /\ req.method = "POST" /\ res.status = 200 =>
              /\ SessionKeyOf(req, res) \in res.sessions
              /\ res.sessions = activeSessions \cup {SessionKeyOf(req, res)}
              /\ req.session # None /\ SessionKeyOf(req, res) \in activeSessions =>
                    res.sessions = activeSessions /\ res.sessionCount = sessionCount
        /\ \A k \in activeSessions \ res.sessions :
              /\ k.deviceId \in DeviceIdsOf(pairedDevices)
              /\ k.deviceId \notin DeviceIdsOf(res.devs)
\* ------------------------------------------------------------ C28
\* the request reaches the line that parses the body: POST /pair always,
\* POST /devices/pair once the gate has let it through
ParsesBody(req) ==
    /\ req.method = "POST"
    /\ \/ req.url = <<"pair">>
       \/ /\ req.url = <<"devices", "pair">>
          /\ req.auth # None
          /\ PairedToken(req.auth[1].cred) \/ LegacyAuth(req.auth)

\* C28: a POST /pair or POST /devices/pair whose body is not JSON is answered
\* with a 4xx status, and text that is not JSON on a signaling connection is
\* answered with an error message while the connection, authenticated or not,
\* stays open and as it was.
C28_MalformedAnswered ==
    /\ [](deployment = "http" =>
            \A req \in Requests :
               req.code = MalformedBody /\ ParsesBody(req) =>
                  /\ ~Handle(req).threw
                  /\ Handle(req).status \in 400..499)
    /\ [][\A c \in ConnIds :
            ret'.op = "message" /\ OnMessage(c, OtherMsg("malformed")) =>
               /\ ret'.reply = "error:Invalid message format"
               /\ ret'.closeCode = 0
               /\ UNCHANGED <<sigVars, amVars>>]_vars
\* ------------------------------------------------------------ C31
\* the devices that have an authenticated connection whose socket is open
OpenDevices(cs) == {cs[c].agent[1] : c \in {x \in DOMAIN cs : cs[x].agent # None /\ cs[x].ws = "OPEN"}}

\* C31: the registry has an entry for every device that has an open
\* authenticated connection, and the close of a connection that the registry
\* no longer points to (an older connection of the device) leaves the entry of
\* the newer connection in place, calls onAgentDisconnected for nobody and
\* leaves the device's WebRTC client alone.
C31_NewerConnectionKept ==
    /\ [](\A d \in OpenDevices(conns) : Has(connectedAgents, d))
    /\ [][\A c \in ConnIds :
            /\ conns[c].agent # None
            /\ Has(connectedAgents, conns[c].agent[1])
            /\ connectedAgents[conns[c].agent[1]] # c
            /\ ret'.op = "close" /\ OnClose(c)
            => /\ connectedAgents' = connectedAgents
               /\ webrtcClients' = webrtcClients
               /\ ret'.disconnected = <<>>]_vars
\* ------------------------------------------------------------ C32
\* the tokens that were issued to a device that is not registered now
RemovedTokens == {t \in amIssued : ~Has(devices, TokenDeviceId(t))}

\* C32: an auth message with the token of a removed device on a connection
\* that has not authenticated is answered 'Invalid token' and closed with
\* 1008, whether or not verifyToken accepts the token; the connection stays
\* unauthenticated, the registry and the WebRTC clients stay as they were.
C32_RemovedDeviceRejected ==
    [][\A c \in ConnIds, t \in RemovedTokens :
         /\ conns[c].agent = None
         /\ ret'.op = "message" /\ OnMessage(c, AuthMsg(Some(t)))
         => /\ ret'.reply = "auth-response:Invalid token"
            /\ ret'.closeCode = 1008
            /\ conns'[c].agent = None /\ conns'[c].ws # "OPEN"
            /\ connectedAgents' = connectedAgents
            /\ webrtcClients' = webrtcClients]_vars

\* a connection has just been refused although verifyToken accepted the
\* signature of the token: the token is back in the cache, its device is not
\* registered
C32_Witness ==
    /\ ret.op = "message" /\ ret.reply = "auth-response:Invalid token" /\ ret.closeCode = 1008
    /\ RemovedTokens \cap tokens # {}
    /\ conns[ret.conn].agent = None
\* ------------------------------------------------------------ C33
\* deviceId names a device that is paired now, or the holder of the API key
PairedNow(deviceId) == deviceId = "legacy" \/ deviceId \in DeviceIdsOf(pairedDevices)

\* C33: a handler that was suspended at its await registers a session or
\* opens a pairing window only if the device it was authenticated as is still
\* paired when it resumes, and no entry of the session registry ever belongs
\* to a device that is not paired.
C33_RevocationPreventsChange ==
    /\ [](\A s \in activeSessions : PairedNow(s.deviceId))
    /\ [][\A k \in inFlight :
            /\ ret'.op = "resume" /\ handlerResume(k)
            /\ activeSessions' # activeSessions \/ activePairingSession' # activePairingSession
            => PairedNow(k.deviceId)]_vars

\* ------------------------------------------------------------ C34
SessionKey(k) == [deviceId |-> k.deviceId, sessionId |-> k.sessionId]

\* C34: no two suspended /mcp handlers hold a new transport and server for the
\* same session key, and a handler that resumes registers its session only
\* under a key that has no entry.
C34_OneSessionPerKey ==
    /\ [](\A k1, k2 \in inFlight :
            k1.url = <<"mcp">> /\ k2.url = <<"mcp">> /\ SessionKey(k1) = SessionKey(k2) => k1 = k2)
    /\ [][\A k \in inFlight :
            k.url = <<"mcp">> /\ ret'.op = "resume" /\ handlerResume(k)
            => SessionKey(k) \notin activeSessions]_vars
\* ------------------------------------------------------------ C35
\* every registered device with an open authenticated connection is active
OpenAreActive(cs, devs) == \A d \in OpenDevices(cs) : Has(devs, d) => devs[d].isActive

\* C35: a registered device that has an open authenticated connection has
\* isActive = true, and neither the sweep nor the close of a connection takes
\* that away from a device that keeps an open authenticated connection.
C35_ConnectedIsActive ==
    /\ []OpenAreActive(conns, devices)
    /\ [][cleanupExpired => (OpenAreActive(conns, devices) => OpenAreActive(conns', devices'))]_vars
    /\ [][\A c \in ConnIds : ret'.op = "close" /\ OnClose(c) =>
            (OpenAreActive(conns, devices) => OpenAreActive(conns', devices'))]_vars
\* ------------------------------------------------------------ C36
\* no paired device, no pairing window that is still open, no API key
LockedOut ==
    /\ deployment = "http"
    /\ pairedDevices = <<>>
    /\ apiKey = None
    /\ isPairingActiveIn(HttpState).out = None

\* C36: in a state with no paired device, no active pairing window and no API
\* key, every request except OPTIONS, /health and POST /pair is answered 401
\* and every POST /pair 403 or 400, and every step other than a restart of the
\* process leaves the server in such a state.
C36_LockedOutStays ==
    /\ [](LockedOut =>
            \A req \in Requests :
               /\ ~Public(req) => Handle(req).status = 401
               /\ req.url = <<"pair">> /\ req.method = "POST" => Handle(req).status \in {400, 403})
    /\ [][LockedOut /\ restarts' = restarts => LockedOut']_vars

\* ------------------------------------------------------------ C37
\* connect() calls that have not ended and sockets still connecting
AttemptsInFlight(socks) ==
    {s \in DOMAIN socks : socks[s].call # "done" \/ socks[s].state = "connecting"}

\* C37: from a call of disconnect() until the owner calls connect() again, no
\* reconnect timer is pending: none is left by disconnect(), and none is
\* scheduled afterwards (by the close event of the socket it closed).
C37_NoReconnectAfterDisconnect == disconnected => timers = {}

\* ------------------------------------------------------------ C38
\* C38: with autoReconnect enabled and no authentication ever succeeding, the
\* client schedules at most maxReconnectAttempts reconnects.
C38_ReconnectsBounded ==
    autoReconnect /\ ~everAuthenticated => reconnects <= maxReconnectAttempts

\* ------------------------------------------------------------ C39
\* C39: at any time at most one reconnect timer is pending and at most one
\* connection attempt is in flight.
C39_OneTimerOneAttempt ==
    /\ Cardinality(timers) <= 1
    /\ Cardinality(AttemptsInFlight(sockets)) <= 1

\* ------------------------------------------------------------ C40
\* the device list that initAuth() would load from tokens.json
PersistedDevices(file) == IF file = None THEN <<>> ELSE JsonParse(file[1])

\* a call of one of the four functions that write the device store
DeviceStoreCall ==
    \/ \E code \in CodeInputs : completePairing(code)
    \/ \E token \in HttpTokenInputs : validateToken(token)
    \/ \E id \in DeviceIdsOf(pairedDevices) \cup {"non-existent"} : revokeDevice(id)
    \/ revokeAll

\* C40: when completePairing, validateToken, revokeDevice or revokeAll returns
\* without an exception, the device list in tokens.json equals the device
\* list in memory.
C40_PersistedEqualsMemory ==
    [][ret'.op \in {"completePairing", "validateToken", "revokeDevice", "revokeAll"}
       /\ ~ret'.threw
       /\ DeviceStoreCall
       => PersistedDevices(tokensFile') = pairedDevices']_vars
====
